---- MODULE Spec2Model ----
(***************************************************************************)
(* The pending-expense ledger (app/services/pending_store.py) and the      *)
(* approval workflow built on it (app/routers/pending.py, expenses.py,     *)
(* accrued.py, receipts.py).                                               *)
(*                                                                         *)
(* Representation.  A ledger record is a Python dict: here a function from *)
(* field names to values, whose domain grows as rec.update(...) adds keys. *)
(* Python's None is None (-1) in integer fields and "None" in string       *)
(* fields, the empty string of an id field is EmptyId (0).  Money is       *)
(* counted in half-cents, so that round(x, 2) is a rounding to an even     *)
(* number and is not the identity.  Time is one logical clock, now: the    *)
(* ids and the timestamps the code draws from time.time() are its value.   *)
(***************************************************************************)
EXTENDS Integers, Sequences, FiniteSets, TLC

\* ------------------------------------------------------------------ bounds
MaxTime == 2
MaxClearing == 2
MaxPosts == 2
MaxReceipts == 1
MaxCalls == 1
MaxExpenses == 1
MaxPayments == 1
MaxThreads == 2
MaxRacing == 2

\* ------------------------------------------------------- values and inputs
None == -1
EmptyId == 0
NoRec == [none |-> TRUE]

Times == 1..MaxTime
Users == {"user", "other", "admin"}
IsAdmin(u) == u = "admin"
AccruedAccount == "accr"
CashAccounts == {"cash"}
Amounts == {4, 5}
ClearAmounts == {2, 3}

\* A date string "YYYY-MM-DD" is the tuple of its three numbers; NoDate is the
\* empty string.  A parsed date is its ordinal, the count of days (of months
\* of 31) before it, which orders dates as the calendar does.
NoDate == <<>>
DateStrings == {<<1, 11, 30>>, <<1, 12, 1>>, <<1, 12, 31>>, <<2, 1, 1>>}
Todays == {<<1, 11, 5>>, <<1, 12, 5>>, <<2, 1, 5>>}

\* datetime.strptime(s, "%Y-%m-%d").date(), None when s is empty or no date.
_parse_yyyy_mm_dd(s) ==
  IF s = NoDate THEN None
  ELSE IF s[2] \notin 1..12 \/ s[3] \notin 1..31 THEN None
  ELSE (s[1] * 12 + (s[2] - 1)) * 31 + (s[3] - 1)

\* The variant before _month_bounds adds one to the month in December too.
month_bounds_no_rollover(today) ==
  << <<today[1], today[2], 1>>, <<today[1], today[2] + 1, 1>> >>

_month_bounds(today) ==
  << <<today[1], today[2], 1>>,
     IF today[2] = 12 THEN <<today[1] + 1, 1, 1>>
     ELSE <<today[1], today[2] + 1, 1>> >>

\* dict.get(k, dflt)
Get(rec, k, dflt) == IF k \in DOMAIN rec THEN rec[k] ELSE dflt

IsRec(r) == "none" \notin DOMAIN r

\* round(x, 2) on half-cents: an even count is a whole number of cents and is
\* kept; an odd count lies halfway between two cents and goes to one of them
\* (which one depends on the binary value of the float): up says which.
Round2(x, up) == IF x % 2 = 0 THEN x ELSE IF up THEN x + 1 ELSE x - 1

Max(a, b) == IF a >= b THEN a ELSE b

RECURSIVE SumAmounts(_)
SumAmounts(clearing) ==
  IF clearing = <<>> THEN 0
  ELSE (IF Head(clearing).amount = None THEN 0 ELSE Head(clearing).amount)
       + SumAmounts(Tail(clearing))

\* ------------------------------------------------------------------- state
VARIABLES
  data,     \* PendingStore._data: key -> record
  now,      \* the clock
  calls,    \* the approve handlers in progress, by slot
  posted,   \* the objects created upstream, in order: index = upstream id
  lock,     \* PendingStore._lock: the thread that holds it, or Unlocked
  loaded,   \* PendingStore._loaded
  file,     \* the ledger file, as the last _save() wrote it
  threads   \* the requests that run as threads, step by step

store_threads == <<lock, loaded, file, threads>>
vars == <<data, now, calls, posted, store_threads>>

\* ------------------------------------------------------ PendingStore methods
\* Each method is an operator from the ledger d (and the clock t) to
\* [data |-> the ledger afterwards, ret |-> the value returned].

\* payload[field] = rec.get(field) or payload.get(field), for a field that not
\* every payload has: a key that holds None is left out of the payload.
Synced(rec, payload, field, none) ==
  IF Get(rec, field, none) # none /\ ~(none = "None" /\ rec[field] = "")
  THEN field :> rec[field]
  ELSE IF Get(payload, field, none) # none THEN field :> payload[field]
  ELSE <<>>

_sync_payload_from_record(rec) ==
  LET payload == Get(rec, "payload", <<>>)
      ptid == Get(rec, "paid_through_account_id", "")
      synced == [ paid_through_account_id |->
                    IF ptid # "" THEN ptid
                    ELSE Get(payload, "paid_through_account_id", "None"),
                  amount |-> IF Get(rec, "amount", None) # None THEN rec.amount
                             ELSE Get(payload, "amount", None) ]
      others == Synced(rec, payload, "date", NoDate)
                @@ Synced(rec, payload, "vendor_id", "None")
                @@ Synced(rec, payload, "vendor_name", "None")
                @@ Synced(rec, payload, "reference_number", "None")
                @@ Synced(rec, payload, "description", "None")
                @@ (IF Get(rec, "pending_kind", "expense") = "expense"
                    THEN Synced(rec, payload, "expense_account_id", "None")
                    ELSE <<>>)
  IN  ("payload" :> (synced @@ others @@ payload)) @@ rec

_recompute_accrued_balance_if_needed(rec) ==
  IF Get(rec, "expense_type", "") # "accrued" THEN rec
  ELSE LET amt == IF rec.amount = None THEN 0 ELSE rec.amount
           cleared_total == SumAmounts(Get(rec, "clearing", <<>>))
       IN  ("balance" :> Max(amt - cleared_total, 0)) @@ rec

PendingStore_next_id(t) == t

PendingStore_get(d, key) == IF key \in DOMAIN d THEN d[key] ELSE NoRec

PendingStore_add_pending(d, record, t) ==
  LET expense_id == IF Get(record, "expense_id", EmptyId) # EmptyId
                    THEN record.expense_id ELSE PendingStore_next_id(t)
      amount == Get(record, "amount", None)
      exp_type == Get(record, "expense_type", "ordinary")
      pk == Get(record, "pending_kind", "")
      pending_kind == IF pk \in {"expense", "accrued_payment"} THEN pk
                      ELSE IF exp_type = "accrued_payment" THEN "accrued_payment"
                      ELSE "expense"
      bal0 == Get(record, "balance", None)
      normalized ==
        [ expense_id |-> expense_id,
          status |-> Get(record, "status", "pending"),
          created_by |-> Get(record, "created_by", "None"),
          date |-> Get(record, "date", NoDate),
          amount |-> amount,
          expense_type |-> exp_type,
          pending_kind |-> pending_kind,
          paid_through_account_id |-> Get(record, "paid_through_account_id", ""),
          receipts |-> Get(record, "receipts", <<>>),
          zoho_posted |-> Get(record, "zoho_posted", FALSE),
          zoho_error |-> Get(record, "zoho_error", "None"),
          zoho_response |-> Get(record, "zoho_response", None),
          zoho_expense_id |-> Get(record, "zoho_expense_id", None),
          zoho_journal_id |-> Get(record, "zoho_journal_id", None),
          balance |-> IF exp_type = "accrued" /\ bal0 = None /\ amount # None
                      THEN amount ELSE bal0,
          clearing |-> Get(record, "clearing", <<>>),
          cleared_at |-> Get(record, "cleared_at", None),
          source_accrued_expense_id |->
            IF Get(record, "source_accrued_expense_id", EmptyId) # EmptyId
            THEN record.source_accrued_expense_id
            ELSE Get(record, "source_expense_id", EmptyId),
          payload |-> Get(record, "payload", record) ]
  IN  [data |-> (expense_id :> normalized) @@ d, ret |-> normalized]

\* A variant that refuses a record that is not pending, as update() does.
update_fields_pending_only(d, key, fields) ==
  IF key \notin DOMAIN d \/ d[key].status # "pending"
  THEN [data |-> d, ret |-> NoRec]
  ELSE LET rec == _recompute_accrued_balance_if_needed(
                    _sync_payload_from_record(fields @@ d[key]))
       IN  [data |-> [d EXCEPT ![key] = rec], ret |-> rec]

PendingStore_update_fields(d, key, fields) ==
  IF key \notin DOMAIN d THEN [data |-> d, ret |-> NoRec]
  ELSE LET rec == _recompute_accrued_balance_if_needed(
                    _sync_payload_from_record(fields @@ d[key]))
       IN  [data |-> [d EXCEPT ![key] = rec], ret |-> rec]

PendingStore_update(d, key, updates) ==
  IF key \notin DOMAIN d \/ d[key].status # "pending"
  THEN [data |-> d, ret |-> NoRec]
  ELSE LET rec == _recompute_accrued_balance_if_needed(
                    _sync_payload_from_record(updates @@ d[key]))
       IN  [data |-> [d EXCEPT ![key] = rec], ret |-> rec]

PendingStore_delete(d, key) ==
  IF key \notin DOMAIN d THEN [data |-> d, ret |-> FALSE]
  ELSE [data |-> [k \in DOMAIN d \ {key} |-> d[k]], ret |-> TRUE]

\* zoho_response = None: the caller passed no response.
PendingStore_approve(d, key, zoho_response, t) ==
  IF key \notin DOMAIN d THEN [data |-> d, ret |-> FALSE]
  ELSE LET stamped == [status |-> "approved", approved_at |-> t] @@ d[key]
           rec == IF zoho_response # None
                  THEN [zoho_posted |-> TRUE, zoho_error |-> "None",
                        zoho_response |-> zoho_response] @@ stamped
                  ELSE stamped
       IN  [data |-> [d EXCEPT ![key] = rec], ret |-> TRUE]

PendingStore_reject(d, key, t) ==
  IF key \notin DOMAIN d THEN [data |-> d, ret |-> FALSE]
  ELSE [data |-> [d EXCEPT ![key] =
                    [status |-> "rejected", rejected_at |-> t] @@ d[key]],
        ret |-> TRUE]

\* A variant that takes receipts for pending records only.
add_receipt_pending_only(d, key, t) ==
  IF key \notin DOMAIN d \/ d[key].status # "pending"
  THEN [data |-> d, ret |-> NoRec]
  ELSE LET rec == ("receipts" :> Append(Get(d[key], "receipts", <<>>),
                                        [created_at |-> t])) @@ d[key]
       IN  [data |-> [d EXCEPT ![key] = rec], ret |-> rec]

PendingStore_add_receipt(d, key, t) ==
  IF key \notin DOMAIN d THEN [data |-> d, ret |-> NoRec]
  ELSE LET rec == ("receipts" :> Append(Get(d[key], "receipts", <<>>),
                                        [created_at |-> t])) @@ d[key]
       IN  [data |-> [d EXCEPT ![key] = rec], ret |-> rec]

\* The early returns of clear_accrued, in the order of the code.  The variant
\* before it leaves out the check of the status.
clear_accrued_refuses_any_status(d, key, amount) ==
  \/ amount = None \/ amount <= 0
  \/ key \notin DOMAIN d
  \/ Get(d[key], "expense_type", "") # "accrued"

clear_accrued_refuses(d, key, amount) ==
  \/ amount = None \/ amount <= 0
  \/ key \notin DOMAIN d
  \/ d[key].status # "approved"
  \/ Get(d[key], "expense_type", "") # "accrued"

\* A variant that turns away an amount above the remaining balance.
clear_accrued_within_balance(d, key, amount, paid_through_account_id, source_payment_id, t, up) ==
  IF clear_accrued_refuses(d, key, amount) THEN [data |-> d, ret |-> NoRec]
  ELSE IF amount > d[key].balance THEN [data |-> d, ret |-> NoRec]
  ELSE LET rec == d[key]
           new_entry == [clearing_id |-> t,
                         amount |-> amount,
                         paid_through_account_id |-> paid_through_account_id,
                         source_payment_id |-> source_payment_id]
           clearing == Append(Get(rec, "clearing", <<>>), new_entry)
           balance == Round2(rec.amount - SumAmounts(clearing), up)
           out == [clearing |-> clearing, balance |-> balance,
                   cleared_at |-> IF balance <= 0 THEN t ELSE None] @@ rec
       IN  [data |-> [d EXCEPT ![key] = out], ret |-> out]

PendingStore_clear_accrued(d, key, amount, paid_through_account_id, source_payment_id, t, up) ==
  IF clear_accrued_refuses(d, key, amount) THEN [data |-> d, ret |-> NoRec]
  ELSE LET rec == d[key]
           new_entry == [clearing_id |-> t,
                         amount |-> amount,
                         paid_through_account_id |-> paid_through_account_id,
                         source_payment_id |-> source_payment_id]
           clearing == Append(Get(rec, "clearing", <<>>), new_entry)
           orig_amt == IF rec.amount = None THEN 0 ELSE rec.amount
           balance == Max(0, Round2(orig_amt - SumAmounts(clearing), up))
           cleared_at == IF balance <= 0
                         THEN (IF Get(rec, "cleared_at", None) # None
                               THEN rec.cleared_at ELSE t)
                         ELSE None
           out == [clearing |-> clearing, balance |-> balance,
                   cleared_at |-> cleared_at] @@ rec
       IN  [data |-> [d EXCEPT ![key] = out], ret |-> out]


\* The index of the first entry of clearing whose clearing_id is cid, or 0.
FirstWithId(clearing, cid) ==
  LET hits == {i \in 1..Len(clearing) : clearing[i].clearing_id = cid}
  IN  IF hits = {} THEN 0 ELSE CHOOSE i \in hits : \A j \in hits : i <= j

RECURSIVE WithoutId(_, _)
WithoutId(clearing, cid) ==
  IF clearing = <<>> THEN <<>>
  ELSE IF Head(clearing).clearing_id = cid THEN WithoutId(Tail(clearing), cid)
  ELSE <<Head(clearing)>> \o WithoutId(Tail(clearing), cid)

PendingStore_update_clearing(d, key, clearing_id, updates, t, up) ==
  IF key \notin DOMAIN d THEN [data |-> d, ret |-> NoRec]
  ELSE IF Get(d[key], "expense_type", "") # "accrued"
       THEN [data |-> d, ret |-> NoRec]
  ELSE LET rec == d[key]
           old == Get(rec, "clearing", <<>>)
           i == FirstWithId(old, clearing_id)
       IN  IF i = 0 THEN [data |-> d, ret |-> NoRec]
           ELSE LET found == updates @@ old[i]
                    clearing == [old EXCEPT ![i] = found]
                    orig_amt == IF rec.amount = None THEN 0 ELSE rec.amount
                    balance == Max(0, Round2(orig_amt - SumAmounts(clearing), up))
                    out == [clearing |-> clearing, balance |-> balance,
                            cleared_at |-> IF balance <= 0 THEN t ELSE None] @@ rec
                IN  [data |-> [d EXCEPT ![key] = out], ret |-> found]

PendingStore_delete_clearing(d, key, clearing_id, t, up) ==
  IF key \notin DOMAIN d THEN [data |-> d, ret |-> FALSE]
  ELSE IF Get(d[key], "expense_type", "") # "accrued"
       THEN [data |-> d, ret |-> FALSE]
  ELSE LET rec == d[key]
           clearing == Get(rec, "clearing", <<>>)
           new_list == WithoutId(clearing, clearing_id)
       IN  IF Len(new_list) = Len(clearing) THEN [data |-> d, ret |-> FALSE]
           ELSE LET orig_amt == IF rec.amount = None THEN 0 ELSE rec.amount
                    balance == Max(0, Round2(orig_amt - SumAmounts(new_list), up))
                    out == [clearing |-> new_list, balance |-> balance,
                            cleared_at |-> IF balance <= 0 THEN t ELSE None] @@ rec
                IN  [data |-> [d EXCEPT ![key] = out], ret |-> TRUE]

\* The store's own request for a clearing payment: it checks the source, not
\* the amount.
PendingStore_create_accrued_payment_pending(d, source_expense_id, amount, cash_account_id, created_by, t) ==
  LET src == PendingStore_get(d, source_expense_id)
  IN  IF ~IsRec(src) THEN [data |-> d, ret |-> NoRec]
      ELSE IF src.status # "approved" THEN [data |-> d, ret |-> NoRec]
      ELSE IF Get(src, "expense_type", "") # "accrued"
      THEN [data |-> d, ret |-> NoRec]
      ELSE PendingStore_add_pending(d,
             [pending_kind |-> "accrued_payment",
              source_expense_id |-> source_expense_id,
              expense_type |-> "accrued",
              amount |-> amount,
              paid_through_account_id |-> cash_account_id,
              created_by |-> created_by], t)

\* The listings, as the set of the keys of the records returned.
PendingStore_list_pending(d) == {k \in DOMAIN d : d[k].status = "pending"}

\* status: "None" when the caller gives none.
PendingStore_list_payments_made(d, status) ==
  {k \in DOMAIN d :
     /\ Get(d[k], "pending_kind", "") = "accrued_payment"
     /\ (status = "None" \/ d[k].status = status)}

\* The amount a record adds to the pending total of account_id: its amount,
\* or its payload's when it has none; nothing unless it is pending there.
\* The variant before it does not look at the status.
pending_amount_any_status(rec, account_id) ==
  LET own == Get(rec, "amount", None)
      amt == IF own = None THEN Get(Get(rec, "payload", <<>>), "amount", None)
             ELSE own
  IN  IF Get(rec, "paid_through_account_id", "None") # account_id THEN 0
      ELSE IF amt = None THEN 0
      ELSE amt

pending_amount(rec, account_id) ==
  LET own == Get(rec, "amount", None)
      amt == IF own = None THEN Get(Get(rec, "payload", <<>>), "amount", None)
             ELSE own
  IN  IF rec.status # "pending" THEN 0
      ELSE IF Get(rec, "paid_through_account_id", "None") # account_id THEN 0
      ELSE IF amt = None THEN 0
      ELSE amt

RECURSIVE pending_total_over(_, _, _)
pending_total_over(d, ks, account_id) ==
  IF ks = {} THEN 0
  ELSE LET k == CHOOSE x \in ks : TRUE
       IN  pending_amount(d[k], account_id)
             + pending_total_over(d, ks \ {k}, account_id)

PendingStore_pending_total_for_account(d, account_id) ==
  pending_total_over(d, DOMAIN d, account_id)

\* today: what date.today() returns during the call.
PendingStore_list_approved(d, start_date, end_date, default_current_month, today) ==
  LET month == start_date = NoDate /\ end_date = NoDate /\ default_current_month
      sd == _parse_yyyy_mm_dd(IF month THEN _month_bounds(today)[1] ELSE start_date)
      ed == _parse_yyyy_mm_dd(IF month THEN _month_bounds(today)[2] ELSE end_date)
  IN  {k \in DOMAIN d :
         /\ d[k].status = "approved"
         /\ Get(d[k], "pending_kind", "expense") = "expense"
         /\ LET dd == _parse_yyyy_mm_dd(Get(d[k], "date", NoDate))
            IN  /\ sd # None => (dd # None /\ dd >= sd)
                /\ ed # None => (dd # None /\ dd < ed)}

\* list_accrued fills in a missing balance from the amount, in the stored
\* record, before it decides whether the record is cleared.  The variant
\* before it leaves the cleared records out whatever include_cleared is.
list_accrued_items(d) ==
  {k \in DOMAIN d : /\ d[k].status = "approved"
                    /\ Get(d[k], "expense_type", "") = "accrued"
                    /\ Get(d[k], "pending_kind", "expense") = "expense"}

list_accrued_bal(rec) ==
  IF Get(rec, "balance", None) = None THEN Get(rec, "amount", None)
  ELSE rec.balance

list_accrued_never_cleared(d, include_cleared) ==
  [data |-> d,
   ret |-> {k \in list_accrued_items(d) :
              ~(list_accrued_bal(d[k]) # None /\ list_accrued_bal(d[k]) <= 0)}]

PendingStore_list_accrued(d, include_cleared) ==
  [data |-> [k \in DOMAIN d |->
               IF k \in list_accrued_items(d)
                  /\ Get(d[k], "balance", None) = None
                  /\ Get(d[k], "amount", None) # None
               THEN ("balance" :> d[k].amount) @@ d[k]
               ELSE d[k]],
   ret |-> {k \in list_accrued_items(d) :
              ~(/\ ~include_cleared
                /\ list_accrued_bal(d[k]) # None
                /\ list_accrued_bal(d[k]) <= 0)}]

\* ------------------------------------------------------------- the handlers
\* Each HTTP handler is an operator from the ledger d, the caller u, its
\* request and the clock t to [data |-> the ledger afterwards, resp |-> the
\* HTTP response].  A response is [code |-> 200, body |-> ...] or, for a
\* raised HTTPException, [code |-> status_code].

HTTPException(status_code) == [code |-> status_code]
Ok(body) == [code |-> 200, body |-> body]

allowed_cash_accounts(u) == IF u = "user" THEN CashAccounts ELSE {}

create_expense(d, u, exp_type, amount, paid_through_account_id, t) ==
  LET paid_through_id == IF exp_type = "accrued" THEN AccruedAccount
                         ELSE paid_through_account_id
  IN  IF ~IsAdmin(u) /\ exp_type # "accrued"
         /\ paid_through_id \notin allowed_cash_accounts(u)
      THEN [data |-> d, resp |-> HTTPException(403)]
      ELSE IF paid_through_id = "" \/ amount = None \/ amount <= 0
      THEN [data |-> d, resp |-> HTTPException(400)]
      ELSE LET record == [ status |-> "pending",
                           expense_type |-> exp_type,
                           paid_through_account_id |-> paid_through_id,
                           amount |-> amount,
                           created_by |-> u,
                           payload |-> [ expense_type |-> exp_type,
                                         paid_through_account_id |->
                                           paid_through_account_id,
                                         amount |-> amount ] ]
               created == PendingStore_add_pending(d, record, t)
           IN  [data |-> created.data,
                resp |-> Ok([ok |-> TRUE, expense |-> created.ret])]

_recompute_accrued_balance(rec, t, up) ==
  LET amt == IF Get(rec, "amount", None) = None THEN 0 ELSE rec.amount
      cleared_total == SumAmounts(Get(rec, "clearing", <<>>))
      balance == Round2(Max(0, amt - cleared_total), up)
  IN  [balance |-> balance,
       cleared_at |-> IF balance <= 0
                      THEN (IF Get(rec, "cleared_at", None) # None
                            THEN rec.cleared_at ELSE t)
                      ELSE None] @@ rec

\* The keys of a patch that update_expense copies into the stored payload.
PayloadKeys == {"amount", "paid_through_account_id"}

\* patch is any JSON object.  The stored payload is edited in place before the
\* ledger is asked to update, so the edit stays when the update is refused.
\* update_expense after its permission check: exp is the ledger's own dict.
update_expense_apply(d, u, expense_id, patch, t, up) ==
  LET exp == d[expense_id]
      copied == [k \in PayloadKeys \cap DOMAIN patch |-> patch[k]]
      payload == copied @@ Get(exp, "payload", <<>>)
      d1 == [d EXCEPT ![expense_id] = ("payload" :> payload) @@ exp]
      updates0 == ("payload" :> payload) @@ patch
      tmp == _recompute_accrued_balance(updates0 @@ d1[expense_id], t, up)
      updates == IF Get(exp, "expense_type", "") = "accrued"
                    /\ "amount" \in DOMAIN updates0
                 THEN [balance |-> tmp.balance, cleared_at |-> tmp.cleared_at]
                      @@ updates0
                 ELSE updates0
      updated == IF IsAdmin(u)
                 THEN PendingStore_update_fields(d1, expense_id, updates)
                 ELSE PendingStore_update(d1, expense_id, updates)
  IN  IF ~IsRec(updated.ret) THEN [data |-> d1, resp |-> HTTPException(400)]
      ELSE [data |-> updated.data,
            resp |-> Ok([ok |-> TRUE, expense |-> updated.ret])]

update_expense(d, u, expense_id, patch, t, up) ==
  IF expense_id \notin DOMAIN d THEN [data |-> d, resp |-> HTTPException(404)]
  ELSE LET exp == d[expense_id]
       IN  IF ~IsAdmin(u) /\ exp.status # "pending"
           THEN [data |-> d, resp |-> HTTPException(403)]
           ELSE IF ~IsAdmin(u) /\ exp.created_by # u
           THEN [data |-> d, resp |-> HTTPException(403)]
           ELSE update_expense_apply(d, u, expense_id, patch, t, up)

\* patch holds the fields of AdminUpdatePayload that the request set.
admin_update(d, u, expense_id, patch) ==
  IF ~IsAdmin(u) THEN [data |-> d, resp |-> HTTPException(403)]
  ELSE IF expense_id \notin DOMAIN d
  THEN [data |-> d, resp |-> HTTPException(404)]
  ELSE LET updated == PendingStore_update_fields(d, expense_id, patch)
       IN  IF ~IsRec(updated.ret)
           THEN [data |-> d, resp |-> HTTPException(400)]
           ELSE [data |-> updated.data,
                 resp |-> Ok([ok |-> TRUE, expense |-> updated.ret])]

\* A variant that does not look at who created the record.
delete_expense_any_owner(d, u, expense_id) ==
  IF expense_id \notin DOMAIN d THEN [data |-> d, resp |-> HTTPException(404)]
  ELSE IF ~IsAdmin(u) /\ d[expense_id].status # "pending"
  THEN [data |-> d, resp |-> HTTPException(403)]
  ELSE [data |-> PendingStore_delete(d, expense_id).data,
        resp |-> Ok([ok |-> TRUE])]

delete_expense(d, u, expense_id) ==
  IF expense_id \notin DOMAIN d THEN [data |-> d, resp |-> HTTPException(404)]
  ELSE IF ~IsAdmin(u) /\ d[expense_id].status # "pending"
  THEN [data |-> d, resp |-> HTTPException(403)]
  ELSE IF ~IsAdmin(u) /\ d[expense_id].created_by # u
  THEN [data |-> d, resp |-> HTTPException(403)]
  ELSE [data |-> PendingStore_delete(d, expense_id).data,
        resp |-> Ok([ok |-> TRUE])]

reject(d, u, expense_id, t) ==
  IF ~IsAdmin(u) THEN [data |-> d, resp |-> HTTPException(403)]
  ELSE LET ok == PendingStore_reject(d, expense_id, t)
       IN  IF ~ok.ret THEN [data |-> d, resp |-> HTTPException(404)]
           ELSE [data |-> ok.data, resp |-> Ok([ok |-> TRUE])]

\* The listing endpoints.  Each one filters what the store lists for a caller
\* who is not an admin; the body names the listed records by their keys, the
\* records themselves are those of the ledger afterwards.
list_pending(d, u) ==
  LET items == PendingStore_list_pending(d)
      allowed == allowed_cash_accounts(u)
  IN  [data |-> d,
       resp |-> Ok([pending |->
                 IF ~IsAdmin(u)
                 THEN {p \in items :
                         \/ Get(d[p], "created_by", "None") = u
                         \/ Get(d[p], "paid_through_account_id", "None") \in allowed}
                 ELSE items])]

list_approved(d, u, start_date, end_date, today) ==
  LET items == PendingStore_list_approved(d, start_date, end_date, TRUE, today)
      allowed == allowed_cash_accounts(u)
  IN  [data |-> d,
       resp |-> Ok([approved |->
                 IF ~IsAdmin(u)
                 THEN {e \in items :
                         \/ Get(d[e], "created_by", "None") = u
                         \/ Get(d[e], "paid_through_account_id", "None") \in allowed}
                 ELSE items])]

list_accrued(d, u, include_cleared) ==
  LET listed == PendingStore_list_accrued(d, include_cleared)
      items == listed.ret
      allowed == allowed_cash_accounts(u)
  IN  [data |-> listed.data,
       resp |-> Ok([accrued |->
                 IF ~IsAdmin(u)
                 THEN {e \in items :
                         \/ Get(listed.data[e], "created_by", "None") = u
                         \/ Get(listed.data[e], "paid_through_account_id", "None")
                              \in allowed}
                 ELSE items])]

\* A variant that hands every caller the store's listing.
list_payments_made_unrestricted(d, u) ==
  [data |-> d,
   resp |-> Ok([payments |-> PendingStore_list_payments_made(d, "approved")])]

list_payments_made(d, u) ==
  LET items == PendingStore_list_payments_made(d, "approved")
      allowed == allowed_cash_accounts(u)
  IN  [data |-> d,
       resp |-> Ok([payments |->
                 IF ~IsAdmin(u)
                 THEN {p \in items :
                         \/ Get(d[p], "created_by", "None") = u
                         \/ Get(d[p], "paid_through_account_id", "None") \in allowed}
                 ELSE items])]

\* POST /accrued/{expense_id}/clear: the request for a clearing payment.
clear_accrued(d, u, expense_id, amount, paid_through_account_id, t) ==
  IF ~IsAdmin(u) THEN [data |-> d, resp |-> HTTPException(403)]
  ELSE IF expense_id \notin DOMAIN d
  THEN [data |-> d, resp |-> HTTPException(404)]
  ELSE IF d[expense_id].status # "approved"
          \/ Get(d[expense_id], "expense_type", "") # "accrued"
  THEN [data |-> d, resp |-> HTTPException(400)]
  ELSE IF amount = None \/ amount <= 0 \/ paid_through_account_id = ""
  THEN [data |-> d, resp |-> HTTPException(400)]
  ELSE LET record == [ pending_kind |-> "accrued_payment",
                       expense_type |-> "accrued_payment",
                       amount |-> amount,
                       paid_through_account_id |-> paid_through_account_id,
                       created_by |-> u,
                       source_accrued_expense_id |-> expense_id,
                       payload |-> [ amount |-> amount,
                                     paid_through_account_id |->
                                       paid_through_account_id ] ]
           created == PendingStore_add_pending(d, record, t)
       IN  [data |-> created.data,
            resp |-> Ok([ok |-> TRUE, payment |-> created.ret])]

\* attached: whether the upload to the upstream attachment endpoint succeeded
\* (it is attempted only for an approved record that has a zoho_expense_id).
upload_receipt(d, u, expense_id, attached, t) ==
  IF ~IsAdmin(u) THEN [data |-> d, resp |-> HTTPException(403)]
  ELSE IF expense_id \notin DOMAIN d
  THEN [data |-> d, resp |-> HTTPException(404)]
  ELSE LET updated == PendingStore_add_receipt(d, expense_id, t)
           push == updated.ret.status = "approved"
                   /\ Get(updated.ret, "zoho_expense_id", None) # None
           marked == PendingStore_update_fields(updated.data, expense_id,
                       [ zoho_attachment_posted |-> attached,
                         zoho_attachment_error |->
                           IF attached THEN "" ELSE "attachment error" ])
           after == IF push THEN marked.data ELSE updated.data
       IN  [data |-> after,
            resp |-> Ok([ok |-> TRUE, expense |-> after[expense_id]])]

\* ------------------------------------------------------ the approval workflow
\* approve is a coroutine: it reads the record, awaits the upstream create,
\* and then writes the outcome in separate ledger calls.  Each operator below
\* is one stretch of it between two points where other requests can run; it
\* maps the ledger and the call c (the coroutine's locals) to the ledger
\* afterwards, the call afterwards and the response (Running while the
\* handler has not returned).

Slots == 1..MaxCalls
Threads == 1..MaxThreads
Unlocked == 0
Idle == [pc |-> "idle"]
Running == [code |-> 0]

\* rec.get(field) or None, and the final filter of the payload: the key is
\* posted unless the record's value is missing, None or empty.
Falsy == {"None", ""}
Posted(key, rec, field, none) ==
  IF Get(rec, field, none) = none THEN <<>>
  ELSE IF none = "None" /\ rec[field] = "" THEN <<>>
  ELSE key :> rec[field]

\* A variant that posts what the payload cached when the record was created.
_build_zoho_expense_payload_cached(rec) ==
  LET payload == Get(rec, "payload", <<>>)
  IN  Posted("date", payload, "date", NoDate)
      @@ Posted("account_id", payload, "expense_account_id", "None")
      @@ Posted("paid_through_account_id", payload, "paid_through_account_id", "None")
      @@ (IF Get(payload, "amount", None) = None THEN <<>>
          ELSE [amount |-> payload.amount])
      @@ Posted("reference_number", payload, "reference_number", "None")
      @@ Posted("description", payload, "description", "None")
      @@ (IF Get(payload, "vendor_id", "None") \notin Falsy
          THEN [vendor_id |-> payload.vendor_id]
          ELSE Posted("vendor_name", payload, "vendor_name", "None"))

_build_zoho_expense_payload(rec) ==
  Posted("date", rec, "date", NoDate)
  @@ Posted("account_id", rec, "expense_account_id", "None")
  @@ Posted("paid_through_account_id", rec, "paid_through_account_id", "None")
  @@ (IF Get(rec, "amount", None) = None THEN <<>> ELSE [amount |-> rec.amount])
  @@ Posted("reference_number", rec, "reference_number", "None")
  @@ Posted("description", rec, "description", "None")
  @@ (IF Get(rec, "vendor_id", "None") \notin Falsy
      THEN [vendor_id |-> rec.vendor_id]
      ELSE Posted("vendor_name", rec, "vendor_name", "None"))

\* The check of the source of a clearing payment.  The variant before it
\* only looks the source up.
invalid_source_if_missing(d, source_id) ==
  \/ source_id = EmptyId
  \/ source_id \notin DOMAIN d

invalid_source(d, source_id) ==
  \/ source_id = EmptyId
  \/ source_id \notin DOMAIN d
  \/ d[source_id].status # "approved"
  \/ Get(d[source_id], "expense_type", "") # "accrued"

\* A variant that turns away a record whose earlier approval failed.
approve_once(d, u, expense_id) ==
  IF ~IsAdmin(u) THEN [call |-> Idle, resp |-> HTTPException(403)]
  ELSE IF expense_id \notin DOMAIN d
  THEN [call |-> Idle, resp |-> HTTPException(404)]
  ELSE IF d[expense_id].status # "pending"
          \/ Get(d[expense_id], "zoho_error", "None") \notin {"", "None"}
  THEN [call |-> Idle,
        resp |-> Ok([ok |-> TRUE, status |-> d[expense_id].status,
                     expense |-> d[expense_id]])]
  ELSE [call |-> [pc |-> "posting", key |-> expense_id, kind |-> "expense",
                  payload |-> _build_zoho_expense_payload(d[expense_id]),
                  source_id |-> EmptyId, zoho_id |-> None],
        resp |-> Running]

\* From the request to the upstream call: nothing is written.
approve(d, u, expense_id) ==
  IF ~IsAdmin(u) THEN [call |-> Idle, resp |-> HTTPException(403)]
  ELSE IF expense_id \notin DOMAIN d
  THEN [call |-> Idle, resp |-> HTTPException(404)]
  ELSE LET rec == d[expense_id] IN
  IF rec.status # "pending"
  THEN [call |-> Idle,
        resp |-> Ok([ok |-> TRUE, status |-> rec.status, expense |-> rec])]
  ELSE IF Get(rec, "pending_kind", "expense") = "expense"
  THEN [call |-> [pc |-> "posting", key |-> expense_id, kind |-> "expense",
                  payload |-> _build_zoho_expense_payload(rec),
                  source_id |-> EmptyId, zoho_id |-> None],
        resp |-> Running]
  ELSE IF Get(rec, "pending_kind", "expense") # "accrued_payment"
  THEN [call |-> Idle, resp |-> HTTPException(400)]
  ELSE LET source_id == Get(rec, "source_accrued_expense_id", EmptyId)
           cash_account_id == Get(rec, "paid_through_account_id", "")
           amt == IF Get(rec, "amount", None) = None THEN 0 ELSE rec.amount
       IN  IF invalid_source(d, source_id)
           THEN [call |-> Idle, resp |-> HTTPException(400)]
           ELSE IF cash_account_id = "" \/ amt <= 0
           THEN [call |-> Idle, resp |-> HTTPException(400)]
           ELSE [call |-> [pc |-> "posting", key |-> expense_id,
                           kind |-> "accrued_payment",
                           payload |-> [debit |-> AccruedAccount,
                                        credit |-> cash_account_id,
                                        amount |-> amt],
                           source_id |-> source_id, zoho_id |-> None],
                 resp |-> Running]

\* A variant that reports the failure without recording it.
approve_failed_unrecorded(d, c) ==
  [data |-> d, call |-> Idle, resp |-> HTTPException(502)]

\* The upstream call raised.
approve_failed(d, c) ==
  [data |-> PendingStore_update_fields(d, c.key,
              [zoho_posted |-> FALSE, zoho_error |-> "upstream error"]).data,
   call |-> Idle,
   resp |-> HTTPException(502)]

\* The upstream call returned zoho_resp (the id of the object it created).
approve_created(d, c, zoho_resp, t) ==
  LET ok == PendingStore_approve(d, c.key, zoho_resp, t)
  IN  IF ~ok.ret
      THEN [data |-> d, call |-> Idle, resp |-> HTTPException(500)]
      ELSE [data |-> ok.data,
            call |-> [c EXCEPT !.pc = "approved", !.zoho_id = zoho_resp],
            resp |-> Running]

\* A variant that does not write the id of the upstream object.
approve_link_without_id(d, c) ==
  LET updated == PendingStore_update_fields(d, c.key,
                   [zoho_posted |-> TRUE, zoho_response |-> c.zoho_id,
                    zoho_error |-> ""])
  IN  IF c.kind = "expense"
      THEN [data |-> updated.data, call |-> Idle,
            resp |-> Ok([ok |-> TRUE, expense |-> updated.ret,
                         zoho_expense_id |-> c.zoho_id])]
      ELSE [data |-> updated.data, call |-> [c EXCEPT !.pc = "clearing"],
            resp |-> Running]

approve_link(d, c) ==
  LET id_field == IF c.kind = "expense" THEN "zoho_expense_id"
                  ELSE "zoho_journal_id"
      updated == PendingStore_update_fields(d, c.key,
                   (id_field :> c.zoho_id)
                   @@ [zoho_posted |-> TRUE, zoho_response |-> c.zoho_id,
                       zoho_error |-> ""])
  IN  IF c.kind = "expense"
      THEN [data |-> updated.data, call |-> Idle,
            resp |-> Ok([ok |-> TRUE, expense |-> updated.ret,
                         zoho_expense_id |-> c.zoho_id])]
      ELSE [data |-> updated.data, call |-> [c EXCEPT !.pc = "clearing"],
            resp |-> Running]

\* The payment's clearing entry; then the receipts decide whether the handler
\* awaits the attachment uploads or returns.
approve_clear(d, c, t, up) ==
  LET cleared == PendingStore_clear_accrued(d, c.source_id, c.payload.amount,
                   c.payload.credit, c.key, t, up)
      updated == PendingStore_get(cleared.data, c.key)
      receipts == IF IsRec(updated) THEN Get(updated, "receipts", <<>>) ELSE <<>>
  IN  IF receipts # <<>>
      THEN [data |-> cleared.data, call |-> [c EXCEPT !.pc = "attaching"],
            resp |-> Running]
      ELSE [data |-> cleared.data, call |-> Idle,
            resp |-> Ok([ok |-> TRUE, expense |-> updated,
                         zoho_journal_id |-> c.zoho_id])]

\* _push_journal_attachments asks for the access token before it starts to
\* collect errors: when that call raises, the exception leaves the handler.
approve_attach_raised(d, c) ==
  [data |-> d, call |-> Idle, resp |-> HTTPException(500)]

\* errors: whether an upload of _push_journal_attachments failed.
approve_attached(d, c, errors) ==
  LET marked == PendingStore_update_fields(d, c.key,
                  [ zoho_attachment_posted |-> ~errors,
                    zoho_attachment_error |->
                      IF errors THEN "attachment error" ELSE "" ])
  IN  [data |-> marked.data, call |-> Idle,
       resp |-> Ok([ok |-> TRUE,
                    expense |-> PendingStore_get(marked.data, c.key),
                    zoho_journal_id |-> c.zoho_id])]

\* ---------------------------------------------------------------- requests
\* One action per request: the handler applied to the state.  The bounds keep
\* the ledger, the clearing lists, the receipts and the upstream log finite.

OfKind(kind) == {k \in DOMAIN data : data[k].pending_kind = kind}
RoomFor(kind, max) == Cardinality(OfKind(kind) \ {PendingStore_next_id(now)}) < max
ClearingOf(key) == Get(data[key], "clearing", <<>>)

Init ==
  /\ data = <<>>
  /\ now = 1
  /\ calls = [s \in Slots |-> Idle]
  /\ posted = <<>>
  /\ lock = Unlocked
  /\ loaded = TRUE
  /\ file = <<>>
  /\ threads = [t \in Threads |-> Idle]

Tick ==
  /\ now < MaxTime
  /\ now' = now + 1
  /\ UNCHANGED <<data, calls, posted, store_threads>>

CreateExpense(u, exp_type, amount, paid_through_account_id) ==
  /\ RoomFor("expense", MaxExpenses)
  /\ data' = create_expense(data, u, exp_type, amount,
                            paid_through_account_id, now).data
  /\ UNCHANGED <<now, calls, posted, store_threads>>

UpdateExpense(u, expense_id, patch, up) ==
  /\ data' = update_expense(data, u, expense_id, patch, now, up).data
  /\ UNCHANGED <<now, calls, posted, store_threads>>

AdminUpdate(u, expense_id, patch) ==
  /\ data' = admin_update(data, u, expense_id, patch).data
  /\ UNCHANGED <<now, calls, posted, store_threads>>

DeleteExpense(u, expense_id) ==
  /\ data' = delete_expense(data, u, expense_id).data
  /\ UNCHANGED <<now, calls, posted, store_threads>>

Reject(u, expense_id) ==
  /\ data' = reject(data, u, expense_id, now).data
  /\ UNCHANGED <<now, calls, posted, store_threads>>

ClearAccrued(u, expense_id, amount, paid_through_account_id) ==
  /\ RoomFor("accrued_payment", MaxPayments)
  /\ data' = clear_accrued(data, u, expense_id, amount,
                           paid_through_account_id, now).data
  /\ UNCHANGED <<now, calls, posted, store_threads>>

UploadReceipt(u, expense_id, attached) ==
  /\ expense_id \in DOMAIN data
  /\ Len(Get(data[expense_id], "receipts", <<>>)) < MaxReceipts
  /\ data' = upload_receipt(data, u, expense_id, attached, now).data
  /\ UNCHANGED <<now, calls, posted, store_threads>>

\* A request to approve is served by the lowest idle slot.
Approve(u, expense_id) ==
  /\ \E s \in Slots :
       /\ calls[s] = Idle
       /\ \A r \in Slots : calls[r] = Idle => s <= r
       /\ calls' = [calls EXCEPT ![s] = approve(data, u, expense_id).call]
  /\ UNCHANGED <<data, now, posted, store_threads>>

ApproveFailed(s) ==
  /\ calls[s].pc = "posting"
  /\ data' = approve_failed(data, calls[s]).data
  /\ calls' = [calls EXCEPT ![s] = approve_failed(data, calls[s]).call]
  /\ UNCHANGED <<now, posted, store_threads>>

\* The upstream creates the object and answers with its id, its position in
\* the log.
ApproveCreated(s) ==
  /\ calls[s].pc = "posting"
  /\ Len(posted) < MaxPosts
  /\ posted' = Append(posted, [key |-> calls[s].key, kind |-> calls[s].kind,
                               amount |-> Get(calls[s].payload, "amount", None)])
  /\ data' = approve_created(data, calls[s], Len(posted) + 1, now).data
  /\ calls' = [calls EXCEPT
                 ![s] = approve_created(data, calls[s], Len(posted) + 1, now).call]
  /\ UNCHANGED <<now, store_threads>>

ApproveLink(s) ==
  /\ calls[s].pc = "approved"
  /\ data' = approve_link(data, calls[s]).data
  /\ calls' = [calls EXCEPT ![s] = approve_link(data, calls[s]).call]
  /\ UNCHANGED <<now, posted, store_threads>>

ApproveClear(s, up) ==
  /\ calls[s].pc = "clearing"
  /\ calls[s].source_id \in DOMAIN data
       => Len(ClearingOf(calls[s].source_id)) < MaxClearing
  /\ data' = approve_clear(data, calls[s], now, up).data
  /\ calls' = [calls EXCEPT ![s] = approve_clear(data, calls[s], now, up).call]
  /\ UNCHANGED <<now, posted, store_threads>>

ApproveAttached(s, errors) ==
  /\ calls[s].pc = "attaching"
  /\ data' = approve_attached(data, calls[s], errors).data
  /\ calls' = [calls EXCEPT ![s] = approve_attached(data, calls[s], errors).call]
  /\ UNCHANGED <<now, posted, store_threads>>

ApproveAttachRaised(s) ==
  /\ calls[s].pc = "attaching"
  /\ data' = approve_attach_raised(data, calls[s]).data
  /\ calls' = [calls EXCEPT ![s] = approve_attach_raised(data, calls[s]).call]
  /\ UNCHANGED <<now, posted, store_threads>>

\* ----------------------------------------------------------- specifications
Keys == DOMAIN data
ExpenseTypes == {"ordinary", "accrued"}
\* A PATCH body is any JSON object: an amount, or a field no form offers.
Patches == {[amount |-> a] : a \in Amounts} \cup {[status |-> "approved"]}
AdminPatches == {[amount |-> a] : a \in Amounts}
ClearingPatches == {[amount |-> a] : a \in ClearAmounts}

\* The expense workflow: a user's expenses, edited, deleted, rejected and
\* approved.
Next ==
  \/ Tick
  \/ \E k \in Keys : Reject("admin", k)
  \/ \E k \in Keys : Approve("admin", k)
  \/ \E s \in Slots : ApproveFailed(s)
  \/ \E s \in Slots : ApproveCreated(s)
  \/ \E s \in Slots : ApproveLink(s)
  \/ \E u \in Users, k \in Keys, patch \in Patches, up \in BOOLEAN :
       UpdateExpense(u, k, patch, up)
  \/ \E k \in Keys, patch \in AdminPatches : AdminUpdate("admin", k, patch)
  \/ \E u \in Users, k \in Keys : DeleteExpense(u, k)
  \/ \E k \in Keys, attached \in BOOLEAN : UploadReceipt("admin", k, attached)
  \/ \E exp_type \in ExpenseTypes, amount \in Amounts :
       CreateExpense("user", exp_type, amount, "cash")

Spec == Init /\ [][Next]_vars

\* The clearing workflow: an accrued expense is approved, clearing payments
\* are requested against it and approved in turn.
PaymentNext ==
  \/ Tick
  \/ \E amount \in Amounts : CreateExpense("user", "accrued", amount, "cash")
  \/ \E u \in Users, k \in Keys : DeleteExpense(u, k)
  \/ \E k \in Keys : Reject("admin", k)
  \/ \E k \in Keys : Approve("admin", k)
  \/ \E s \in Slots : ApproveFailed(s)
  \/ \E s \in Slots : ApproveCreated(s)
  \/ \E s \in Slots : ApproveLink(s)
  \/ \E k \in Keys, amount \in ClearAmounts :
       ClearAccrued("admin", k, amount, "cash")
  \/ \E s \in Slots, up \in BOOLEAN : ApproveClear(s, up)
  \/ \E s \in Slots, errors \in BOOLEAN : ApproveAttached(s, errors)
  \/ \E s \in Slots : ApproveAttachRaised(s)
  \/ \E k \in Keys, attached \in BOOLEAN : UploadReceipt("admin", k, attached)

PaymentSpec == Init /\ [][PaymentNext]_vars

\* The ledger alone: any sequence of PendingStore operations.
LedgerRecords ==
  { [ expense_type |-> exp_type, amount |-> amount, created_by |-> "user",
      paid_through_account_id |->
        IF exp_type = "accrued" THEN AccruedAccount ELSE "cash" ] :
    exp_type \in ExpenseTypes, amount \in Amounts }

Store_add_pending(record) ==
  /\ RoomFor("expense", MaxExpenses)
  /\ data' = PendingStore_add_pending(data, record, now).data
  /\ UNCHANGED <<now, calls, posted, store_threads>>

Store_update(key, updates) ==
  /\ data' = PendingStore_update(data, key, updates).data
  /\ UNCHANGED <<now, calls, posted, store_threads>>

Store_update_fields(key, fields) ==
  /\ data' = PendingStore_update_fields(data, key, fields).data
  /\ UNCHANGED <<now, calls, posted, store_threads>>

Store_delete(key) ==
  /\ data' = PendingStore_delete(data, key).data
  /\ UNCHANGED <<now, calls, posted, store_threads>>

Store_approve(key, zoho_response) ==
  /\ data' = PendingStore_approve(data, key, zoho_response, now).data
  /\ UNCHANGED <<now, calls, posted, store_threads>>

Store_reject(key) ==
  /\ data' = PendingStore_reject(data, key, now).data
  /\ UNCHANGED <<now, calls, posted, store_threads>>

Store_add_receipt(key) ==
  /\ Len(Get(data[key], "receipts", <<>>)) < MaxReceipts
  /\ data' = PendingStore_add_receipt(data, key, now).data
  /\ UNCHANGED <<now, calls, posted, store_threads>>

Store_clear_accrued(key, amount, up) ==
  /\ Len(ClearingOf(key)) < MaxClearing
  /\ data' = PendingStore_clear_accrued(data, key, amount, "cash", EmptyId,
                                        now, up).data
  /\ UNCHANGED <<now, calls, posted, store_threads>>

Store_update_clearing(key, clearing_id, updates, up) ==
  /\ data' = PendingStore_update_clearing(data, key, clearing_id, updates,
                                          now, up).data
  /\ UNCHANGED <<now, calls, posted, store_threads>>

Store_delete_clearing(key, clearing_id, up) ==
  /\ data' = PendingStore_delete_clearing(data, key, clearing_id, now, up).data
  /\ UNCHANGED <<now, calls, posted, store_threads>>

Store_list_accrued(include_cleared) ==
  /\ data' = PendingStore_list_accrued(data, include_cleared).data
  /\ UNCHANGED <<now, calls, posted, store_threads>>

LedgerNext ==
  \/ Tick
  \/ \E include_cleared \in BOOLEAN : Store_list_accrued(include_cleared)
  \/ \E record \in LedgerRecords : Store_add_pending(record)
  \/ \E k \in Keys, updates \in AdminPatches : Store_update(k, updates)
  \/ \E k \in Keys, fields \in AdminPatches : Store_update_fields(k, fields)
  \/ \E k \in Keys : Store_delete(k)
  \/ \E k \in Keys, zoho_response \in {None, 1} : Store_approve(k, zoho_response)
  \/ \E k \in Keys : Store_reject(k)
  \/ \E k \in Keys : Store_add_receipt(k)
  \/ \E k \in Keys, amount \in ClearAmounts, up \in BOOLEAN :
       Store_clear_accrued(k, amount, up)
  \/ \E k \in Keys, c \in Times, updates \in ClearingPatches, up \in BOOLEAN :
       Store_update_clearing(k, c, updates, up)
  \/ \E k \in Keys, c \in Times, up \in BOOLEAN : Store_delete_clearing(k, c, up)

LedgerSpec == Init /\ [][LedgerNext]_vars

\* The create paths: the two handlers that create records, and the ledger's
\* own add_pending and create_accrued_payment_pending, which take whatever
\* record or amount the caller passes.
CreateRecords ==
  LedgerRecords
  \cup { [ expense_type |-> "accrued", amount |-> amount, created_by |-> "user",
           paid_through_account_id |-> AccruedAccount, status |-> "approved" ] :
         amount \in Amounts }
  \cup { [ expense_type |-> "accrued", amount |-> 4, balance |-> 2,
           created_by |-> "user", paid_through_account_id |-> AccruedAccount ],
         [ expense_type |-> "ordinary", amount |-> 0, created_by |-> "user",
           paid_through_account_id |-> "cash" ] }

Create_add_pending(record) ==
  /\ RoomFor("expense", MaxExpenses)
  /\ data' = PendingStore_add_pending(data, record, now).data
  /\ UNCHANGED <<now, calls, posted, store_threads>>

Store_create_accrued_payment_pending(source_expense_id, amount) ==
  /\ RoomFor("accrued_payment", MaxPayments)
  /\ data' = PendingStore_create_accrued_payment_pending(data, source_expense_id,
                amount, "cash", "user", now).data
  /\ UNCHANGED <<now, calls, posted, store_threads>>

CreateNext ==
  \/ Tick
  \/ \E record \in CreateRecords : Create_add_pending(record)
  \/ \E k \in Keys, amount \in ClearAmounts \cup {0} :
       Store_create_accrued_payment_pending(k, amount)
  \/ \E u \in Users, exp_type \in ExpenseTypes, amount \in Amounts \cup {0} :
       CreateExpense(u, exp_type, amount,
                     IF exp_type = "accrued" THEN AccruedAccount ELSE "cash")
  \/ \E u \in Users, k \in Keys, amount \in ClearAmounts \cup {0} :
       ClearAccrued(u, k, amount, "cash")
  \/ \E k \in Keys : Store_approve(k, 1)

CreateSpec == Init /\ [][CreateNext]_vars

\* The listings: records of both kinds, of two users, dated around the turn
\* of a year, created, approved, rejected and deleted.
DatedRecords ==
  { [ expense_type |-> "ordinary", pending_kind |-> kind, amount |-> 4,
      created_by |-> u, paid_through_account_id |-> acct, date |-> date ] :
    kind \in {"expense", "accrued_payment"}, u \in {"user", "other"},
    acct \in {"cash", "bank"}, date \in {NoDate, <<1, 12, 31>>, <<2, 1, 1>>} }

Report_add_pending(record) ==
  /\ data' = PendingStore_add_pending(data, record, now).data
  /\ UNCHANGED <<now, calls, posted, store_threads>>

Store_list_approved(start_date, end_date, default_current_month, today) ==
  /\ PendingStore_list_approved(data, start_date, end_date,
                                default_current_month, today) \subseteq Keys
  /\ UNCHANGED vars

Store_pending_total_for_account(account_id) ==
  /\ PendingStore_pending_total_for_account(data, account_id) >= 0
  /\ UNCHANGED vars

ReportNext ==
  \/ Tick
  \/ \E account_id \in {"cash", "bank"} : Store_pending_total_for_account(account_id)
  \/ \E record \in DatedRecords : Report_add_pending(record)
  \/ \E k \in Keys : Store_approve(k, 1)
  \/ \E k \in Keys : Store_reject(k)
  \/ \E k \in Keys : Store_delete(k)
  \/ \E start_date, end_date \in DateStrings \cup {NoDate}, dcm \in BOOLEAN, today \in Todays :
       Store_list_approved(start_date, end_date, dcm, today)

ReportSpec == Init /\ [][ReportNext]_vars

\* The clearing workflow with the accounts a clearing request can name: the
\* request carries any account id, the liability account's own among them.
ClearingAccounts == {"cash", AccruedAccount}

ClearingNext ==
  \/ Tick
  \/ \E amount \in Amounts : CreateExpense("user", "accrued", amount, "cash")
  \/ \E k \in Keys : Approve("admin", k)
  \/ \E s \in Slots : ApproveCreated(s)
  \/ \E s \in Slots : ApproveLink(s)
  \/ \E k \in Keys, amount \in ClearAmounts, acct \in ClearingAccounts :
       ClearAccrued("admin", k, amount, acct)
  \/ \E s \in Slots, up \in BOOLEAN : ApproveClear(s, up)

ClearingSpec == Init /\ [][ClearingNext]_vars

\* The listing endpoints: records of every kind, of two users and two
\* accounts, pending or approved, listed for each caller.
ListedRecords ==
  { [ expense_type |-> kind[1], pending_kind |-> kind[2], amount |-> 4,
      created_by |-> u, paid_through_account_id |-> acct,
      date |-> <<1, 12, 31>> ] :
    kind \in {<<"ordinary", "expense">>, <<"accrued", "expense">>,
              <<"accrued_payment", "accrued_payment">>},
    u \in {"user", "other"}, acct \in {"cash", "bank"} }

ListPending(u) ==
  /\ data' = list_pending(data, u).data
  /\ UNCHANGED <<now, calls, posted, store_threads>>

ListApproved(u, start_date, end_date, today) ==
  /\ data' = list_approved(data, u, start_date, end_date, today).data
  /\ UNCHANGED <<now, calls, posted, store_threads>>

ListAccrued(u, include_cleared) ==
  /\ data' = list_accrued(data, u, include_cleared).data
  /\ UNCHANGED <<now, calls, posted, store_threads>>

ListPaymentsMade(u) ==
  /\ data' = list_payments_made(data, u).data
  /\ UNCHANGED <<now, calls, posted, store_threads>>

ListingNext ==
  \/ Tick
  \/ \E record \in ListedRecords : Report_add_pending(record)
  \/ \E k \in Keys : Store_approve(k, 1)
  \/ \E u \in Users : ListPending(u)
  \/ \E u \in Users, today \in Todays : ListApproved(u, NoDate, NoDate, today)
  \/ \E u \in Users, include_cleared \in BOOLEAN : ListAccrued(u, include_cleared)
  \/ \E u \in Users : ListPaymentsMade(u)

ListingSpec == Init /\ [][ListingNext]_vars

\* Edits before an approval: the fields of the edit forms, set, changed and
\* emptied by the owner or by an admin.
EditPatches ==
  {[amount |-> a] : a \in Amounts}
  \cup {[date |-> <<1, 12, 31>>]}
  \cup {[reference_number |-> "ref-2"], [reference_number |-> ""],
        [vendor_name |-> "acme"], [paid_through_account_id |-> "bank"]}

EditNext ==
  \/ Tick
  \/ CreateExpense("user", "ordinary", 4, "cash")
  \/ \E k \in Keys, patch \in EditPatches, up \in BOOLEAN :
       UpdateExpense("user", k, patch, up)
  \/ \E k \in Keys, patch \in EditPatches : AdminUpdate("admin", k, patch)
  \/ \E k \in Keys : Approve("admin", k)
  \/ \E s \in Slots : ApproveCreated(s)
  \/ \E s \in Slots : ApproveLink(s)

EditSpec == Init /\ [][EditNext]_vars

\* PATCH /expenses/{expense_id} takes any JSON object: the keys of the record
\* that no form offers are among those a caller can send.
OtherId == 9
AnyPatches ==
  {[amount |-> a] : a \in Amounts}
  \cup {[status |-> st] : st \in {"approved", "rejected"}}
  \cup {[zoho_posted |-> TRUE], [expense_id |-> OtherId]}

PatchNext ==
  \/ Tick
  \/ \E exp_type \in ExpenseTypes :
       CreateExpense("user", exp_type, 4, "cash")
  \/ \E u \in Users, k \in Keys, patch \in AnyPatches, up \in BOOLEAN :
       UpdateExpense(u, k, patch, up)
  \/ \E u \in Users, k \in Keys : DeleteExpense(u, k)
  \/ \E k \in Keys : Approve("admin", k)
  \/ \E s \in Slots : ApproveCreated(s)
  \/ \E s \in Slots : ApproveLink(s)

PatchSpec == Init /\ [][PatchNext]_vars

\* ------------------------------------------------- the ledger under threads
\* Every request runs in a thread of its own.  A PendingStore method is
\* _load() before the lock, then its body inside `with self._lock`, which
\* ends with _save() when the method changed the ledger.

\* The ledger file a restarted process finds: one accrued expense of "user",
\* created at time 1 under the key 1, still pending or approved and posted.
Persisted(status, amount) ==
  LET d0 == PendingStore_add_pending(<<>>,
              [expense_type |-> "accrued", amount |-> amount,
               created_by |-> "user",
               paid_through_account_id |-> AccruedAccount], 1).data
      created == approve_created(d0, approve(d0, "admin", 1).call, 1, 1)
  IN  IF status = "approved" THEN approve_link(created.data, created.call).data
      ELSE d0

LockInit ==
  /\ now = 2
  /\ calls = [s \in Slots |-> Idle]
  /\ \E status \in {"pending", "approved"}, amount \in Amounts :
       /\ file = Persisted(status, amount)
       /\ posted = IF status = "approved"
                   THEN <<[key |-> 1, kind |-> "expense", amount |-> amount]>>
                   ELSE <<>>
  /\ loaded \in BOOLEAN
  /\ data = IF loaded THEN file ELSE <<>>
  /\ lock = Unlocked
  /\ threads = [t \in Threads |-> Idle]

\* The requests of the threads: ledger calls on the persisted record, a
\* create, and the approve handler.
ThreadRequests ==
  {[name |-> "add_pending", record |-> r] :
     r \in {x \in LedgerRecords : x.expense_type = "ordinary"}}
  \cup {[name |-> "update", key |-> 1, updates |-> [amount |-> a]] :
          a \in Amounts}
  \cup {[name |-> "clear_accrued", key |-> 1, amount |-> a] : a \in ClearAmounts}
  \cup {[name |-> n, key |-> 1] :
          n \in {"delete", "reject", "add_receipt", "approve"}}

Request(t, req) ==
  /\ threads[t].pc = "idle"
  /\ threads' = [threads EXCEPT ![t] =
                   [pc |-> "load", req |-> req,
                    stage |-> IF req.name = "approve" THEN "get" ELSE req.name,
                    call |-> Idle, content |-> <<>>, ok |-> FALSE]]
  /\ UNCHANGED <<data, now, calls, posted, lock, loaded, file>>

\* _load(), not under the lock: it returns at once when _loaded is set;
\* otherwise it sets _loaded, then reads the file, then replaces _data.
Load(t) ==
  /\ threads[t].pc = "load"
  /\ loaded' = TRUE
  /\ threads' = [threads EXCEPT ![t].pc = IF loaded THEN "acquire" ELSE "read"]
  /\ UNCHANGED <<data, now, calls, posted, lock, file>>

ReadFile(t) ==
  /\ threads[t].pc = "read"
  /\ threads' = [threads EXCEPT ![t].pc = "assign", ![t].content = file]
  /\ UNCHANGED <<data, now, calls, posted, lock, loaded, file>>

AssignData(t) ==
  /\ threads[t].pc = "assign"
  /\ data' = threads[t].content
  /\ threads' = [threads EXCEPT ![t].pc = "acquire", ![t].content = <<>>]
  /\ UNCHANGED <<now, calls, posted, lock, loaded, file>>

\* `with self._lock`: entering waits for the lock; leaving releases it.  The
\* variant before with_lock_exit keeps the lock.
Acquire(t) ==
  /\ threads[t].pc = "acquire"
  /\ lock = Unlocked
  /\ lock' = t
  /\ threads' = [threads EXCEPT ![t].pc = "locked"]
  /\ UNCHANGED <<data, now, calls, posted, loaded, file>>

with_lock_exit_held(t) == t

with_lock_exit(t) == Unlocked

\* The body of the method thread th is in: the ledger after it, whether it
\* reached _save(), and the thread after the method returned.
ThreadBody(d, th, t, up) ==
  LET done(ok) == [th EXCEPT !.pc = "done", !.ok = ok]
      key == Get(th.req, "key", EmptyId)
  IN  CASE th.stage = "add_pending" ->
             [data |-> PendingStore_add_pending(d, th.req.record, t).data,
              saved |-> TRUE, th |-> done(TRUE)]
        [] th.stage = "update" ->
             LET r == PendingStore_update(d, key, th.req.updates)
             IN  [data |-> r.data, saved |-> IsRec(r.ret), th |-> done(IsRec(r.ret))]
        [] th.stage = "delete" ->
             LET r == PendingStore_delete(d, key)
             IN  [data |-> r.data, saved |-> r.ret, th |-> done(r.ret)]
        [] th.stage = "reject" ->
             LET r == PendingStore_reject(d, key, t)
             IN  [data |-> r.data, saved |-> r.ret, th |-> done(r.ret)]
        [] th.stage = "add_receipt" ->
             LET r == PendingStore_add_receipt(d, key, t)
             IN  [data |-> r.data, saved |-> IsRec(r.ret), th |-> done(IsRec(r.ret))]
        [] th.stage = "clear_accrued" ->
             LET r == PendingStore_clear_accrued(d, key, th.req.amount, "cash",
                                                 EmptyId, t, up)
             IN  [data |-> r.data, saved |-> IsRec(r.ret), th |-> done(IsRec(r.ret))]
        [] th.stage = "get" ->
             LET r == approve(d, "admin", key)
             IN  [data |-> d, saved |-> FALSE,
                  th |-> IF r.call = Idle THEN done(FALSE)
                         ELSE [th EXCEPT !.pc = "awaiting", !.call = r.call]]
        [] th.stage = "failed" ->
             LET r == approve_failed(d, th.call)
             IN  [data |-> r.data, saved |-> key \in DOMAIN d, th |-> done(FALSE)]
        [] th.stage = "approve" ->
             LET r == approve_created(d, th.call, th.call.zoho_id, t)
             IN  [data |-> r.data, saved |-> r.call # Idle,
                  th |-> IF r.call = Idle THEN done(FALSE)
                         ELSE [th EXCEPT !.pc = "load", !.stage = "link",
                                         !.call = r.call]]
        [] th.stage = "link" ->
             LET r == approve_link(d, th.call)
             IN  [data |-> r.data, saved |-> key \in DOMAIN d,
                  th |-> done(key \in DOMAIN d)]

Body(t, up) ==
  /\ threads[t].pc = "locked"
  /\ data' = ThreadBody(data, threads[t], now, up).data
  /\ file' = IF ThreadBody(data, threads[t], now, up).saved THEN data' ELSE file
  /\ lock' = with_lock_exit(t)
  /\ threads' = [threads EXCEPT ![t] = ThreadBody(data, threads[t], now, up).th]
  /\ UNCHANGED <<now, calls, posted, loaded>>

\* The upstream call of a waiting approve handler raises, or creates the
\* object and answers with its id.
UpstreamRaises(t) ==
  /\ threads[t].pc = "awaiting"
  /\ threads' = [threads EXCEPT ![t].pc = "load", ![t].stage = "failed"]
  /\ UNCHANGED <<data, now, calls, posted, lock, loaded, file>>

UpstreamReturns(t) ==
  /\ threads[t].pc = "awaiting"
  /\ posted' = Append(posted, [key |-> threads[t].call.key,
                               kind |-> threads[t].call.kind,
                               amount |-> Get(threads[t].call.payload,
                                              "amount", None)])
  /\ threads' = [threads EXCEPT ![t].pc = "load", ![t].stage = "approve",
                                ![t].call.zoho_id = Len(posted) + 1]
  /\ UNCHANGED <<data, now, calls, lock, loaded, file>>

LockNext ==
  \/ \E t \in Threads, req \in ThreadRequests : Request(t, req)
  \/ \E t \in Threads : Load(t)
  \/ \E t \in Threads : ReadFile(t)
  \/ \E t \in Threads : AssignData(t)
  \/ \E t \in Threads : Acquire(t)
  \/ \E t \in Threads, up \in BOOLEAN : Body(t, up)
  \/ \E t \in Threads : UpstreamRaises(t)
  \/ \E t \in Threads : UpstreamReturns(t)

LockSpec == LockInit /\ [][LockNext]_vars

\* ------------------------------------------------- approve requests at once
\* approve is a coroutine: while one request awaits the upstream, the event
\* loop serves the next one.  The ledger a restarted process finds holds an
\* approved accrued expense under the key 1 and a pending clearing payment
\* for it under the key 2; the requests approve them.
RaceSlots == 1..MaxRacing

RaceInit ==
  /\ now = 2
  /\ \E amount \in Amounts, paid \in ClearAmounts :
       /\ data = clear_accrued(Persisted("approved", amount), "admin", 1, paid,
                               "cash", 2).data
       /\ posted = <<[key |-> 1, kind |-> "expense", amount |-> amount]>>
  /\ calls = [s \in RaceSlots |-> Idle]
  /\ lock = Unlocked
  /\ loaded = TRUE
  /\ file = <<>>
  /\ threads = [t \in Threads |-> Idle]

RaceApprove(s, expense_id) ==
  /\ calls[s] = Idle
  /\ calls' = [calls EXCEPT ![s] = approve(data, "admin", expense_id).call]
  /\ UNCHANGED <<data, now, posted, store_threads>>

\* Every call in flight is answered: one object of the upstream for each.
RaceApproveCreated(s) ==
  /\ calls[s].pc = "posting"
  /\ Len(posted) <= MaxRacing
  /\ posted' = Append(posted, [key |-> calls[s].key, kind |-> calls[s].kind,
                               amount |-> Get(calls[s].payload, "amount", None)])
  /\ data' = approve_created(data, calls[s], Len(posted) + 1, now).data
  /\ calls' = [calls EXCEPT
                 ![s] = approve_created(data, calls[s], Len(posted) + 1, now).call]
  /\ UNCHANGED <<now, store_threads>>

RaceNext ==
  \/ \E s \in RaceSlots, k \in Keys : RaceApprove(s, k)
  \/ \E s \in RaceSlots : ApproveFailed(s)
  \/ \E s \in RaceSlots : RaceApproveCreated(s)
  \/ \E s \in RaceSlots : ApproveLink(s)
  \/ \E s \in RaceSlots, up \in BOOLEAN : ApproveClear(s, up)

RaceSpec == RaceInit /\ [][RaceNext]_vars

\* ------------------------------------------- the owner's requests in threads
\* update_expense and delete_expense are plain functions: each request runs
\* in a worker thread, and between its permission check and its call of the
\* ledger the event loop can finish an approval.
\* The permission check that update_expense and delete_expense start with:
\* the response it raises, or Running when the handler goes on.
permission_check(d, u, expense_id) ==
  IF expense_id \notin DOMAIN d THEN HTTPException(404)
  ELSE IF ~IsAdmin(u) /\ d[expense_id].status # "pending"
  THEN HTTPException(403)
  ELSE IF ~IsAdmin(u) /\ d[expense_id].created_by # u
  THEN HTTPException(403)
  ELSE Running

OwnerPatches == {[amount |-> a] : a \in Amounts}

\* The request passed its check and is about to call the ledger.
DeleteChecked(t, u, expense_id) ==
  /\ threads[t] = Idle
  /\ permission_check(data, u, expense_id) = Running
  /\ threads' = [threads EXCEPT ![t] = [pc |-> "delete", key |-> expense_id]]
  /\ UNCHANGED <<data, now, calls, posted, lock, loaded, file>>

DeleteCalled(t) ==
  /\ threads[t].pc = "delete"
  /\ data' = PendingStore_delete(data, threads[t].key).data
  /\ threads' = [threads EXCEPT ![t] = Idle]
  /\ UNCHANGED <<now, calls, posted, lock, loaded, file>>

UpdateChecked(t, u, expense_id, patch) ==
  /\ threads[t] = Idle
  /\ permission_check(data, u, expense_id) = Running
  /\ threads' = [threads EXCEPT ![t] = [pc |-> "update", key |-> expense_id,
                                        user |-> u, patch |-> patch]]
  /\ UNCHANGED <<data, now, calls, posted, lock, loaded, file>>

\* exp is the dict the ledger holds: when the record was deleted meanwhile,
\* the writes go to a dict the ledger no longer has.
UpdateCalled(t, up) ==
  /\ threads[t].pc = "update"
  /\ data' = IF threads[t].key \in DOMAIN data
             THEN update_expense_apply(data, threads[t].user, threads[t].key,
                                       threads[t].patch, now, up).data
             ELSE data
  /\ threads' = [threads EXCEPT ![t] = Idle]
  /\ UNCHANGED <<now, calls, posted, lock, loaded, file>>

OwnerNext ==
  \/ Tick
  \/ \E amount \in Amounts : CreateExpense("user", "ordinary", amount, "cash")
  \/ \E k \in Keys : Approve("admin", k)
  \/ \E s \in Slots : ApproveCreated(s)
  \/ \E s \in Slots : ApproveLink(s)
  \/ \E t \in Threads, k \in Keys : DeleteChecked(t, "user", k)
  \/ \E t \in Threads : DeleteCalled(t)
  \/ \E t \in Threads, k \in Keys, patch \in OwnerPatches :
       UpdateChecked(t, "user", k, patch)
  \/ \E t \in Threads, up \in BOOLEAN : UpdateCalled(t, up)

OwnerSpec == Init /\ [][OwnerNext]_vars

\* ------------------------------------------------------------------- claims
AmountOf(rec) == IF Get(rec, "amount", None) = None THEN 0 ELSE rec.amount
IsAccrued(rec) == Get(rec, "expense_type", "") = "accrued"
\* The keys a caller can name: those of the ledger and those of no record.
AnyKey == 0..MaxTime

\* C1: every accrued record of the ledger has
\* balance = max(0, amount - sum of the amounts of its clearing entries).
C1_balance ==
  \A k \in Keys :
    IsAccrued(data[k])
      => data[k].balance
           = Max(0, AmountOf(data[k]) - SumAmounts(ClearingOf(k)))

\* C8: PendingStore.approve(id) on an existing record that is not pending is a
\* no-op that reports success: status, approved_at and the zoho_* fields stay.
C8_approve_noop ==
  \A k \in Keys :
    data[k].status # "pending"
      => LET r == PendingStore_approve(data, k, None, now)
         IN  /\ r.ret = TRUE
             /\ \A f \in {"status", "approved_at", "zoho_posted", "zoho_error",
                          "zoho_response", "zoho_expense_id", "zoho_journal_id"} :
                  /\ (f \in DOMAIN r.data[k]) = (f \in DOMAIN data[k])
                  /\ f \in DOMAIN data[k] => r.data[k][f] = data[k][f]

\* C9: PendingStore.clear_accrued on a missing record, on a record that is not
\* approved or not accrued, or with an amount <= 0 (or None) returns None and
\* leaves the whole ledger as it was.
C9_clear_refused ==
  \A k \in AnyKey, amount \in ClearAmounts \cup {0, None}, up \in BOOLEAN :
    (\/ k \notin Keys
     \/ amount <= 0
     \/ (k \in Keys /\ (data[k].status # "approved" \/ ~IsAccrued(data[k]))))
      => LET r == PendingStore_clear_accrued(data, k, amount, "cash", EmptyId,
                                             now, up)
         IN  r.ret = NoRec /\ r.data = data

\* A rejected accrued record that was cleared while approved: clearing it again
\* is refused.
C9_witness ==
  \E k \in Keys :
    /\ IsAccrued(data[k]) /\ data[k].status = "rejected"
    /\ Len(ClearingOf(k)) >= 1
    /\ PendingStore_clear_accrued(data, k, 2, "cash", EmptyId, now, TRUE).ret
         = NoRec

\* C2: a record is approved only if an upstream create for it succeeded: it is
\* then marked posted and its zoho_response is the answer to a create that the
\* upstream log holds for this record.
C2_approved_posted ==
  \A k \in Keys :
    data[k].status = "approved"
      => /\ data[k].zoho_posted = TRUE
         /\ \E i \in 1..Len(posted) :
              posted[i].key = k /\ data[k].zoho_response = i

\* The step in which the approve handler of slot s learns that the upstream
\* call failed, resp. that it succeeded, resp. writes the linkage.
FailedStep(s) ==
  calls[s].pc = "posting" /\ calls'[s] = Idle /\ posted' = posted
CreatedStep(s) ==
  calls[s].pc = "posting" /\ calls'[s] # calls[s] /\ posted' # posted
LinkStep(s) ==
  calls[s].pc = "approved" /\ calls'[s] # calls[s]

\* C3: when the upstream create fails for a record that is pending, the record
\* stays pending with zoho_posted false and zoho_error set, the caller gets
\* 502, and list_pending still holds the record.
C3_failure_keeps_pending ==
  [][\A s \in Slots :
       LET k == calls[s].key IN
       (FailedStep(s) /\ k \in Keys /\ data[k].status = "pending")
         => /\ k \in DOMAIN data'
            /\ data'[k].status = "pending"
            /\ data'[k].zoho_posted = FALSE
            /\ data'[k].zoho_error = "upstream error"
            /\ approve_failed(data, calls[s]).resp = HTTPException(502)
            /\ k \in PendingStore_list_pending(data')]_vars

\* A clearing payment that is still pending after a failed approval.
C3_witness ==
  \E k \in Keys :
    /\ data[k].pending_kind = "accrued_payment"
    /\ data[k].status = "pending"
    /\ data[k].zoho_posted = FALSE
    /\ data[k].zoho_error = "upstream error"
    /\ \A s \in Slots : calls[s] = Idle

\* C4: when the upstream create succeeds for a pending expense, the record is
\* approved and posted with the upstream answer stored and no error, and once
\* the handler has written the linkage its zoho_expense_id is the id the
\* upstream returned for it.
C4_success_approves ==
  [][\A s \in Slots :
       LET k == calls[s].key IN
       /\ (CreatedStep(s) /\ calls[s].kind = "expense" /\ k \in Keys)
            => /\ data'[k].status = "approved"
               /\ data'[k].zoho_posted = TRUE
               /\ data'[k].zoho_response = Len(posted')
               /\ data'[k].zoho_error = "None"
       /\ (LinkStep(s) /\ calls[s].kind = "expense" /\ k \in Keys
             /\ data[k].status = "approved")
            => /\ data'[k].status = "approved"
               /\ data'[k].zoho_posted = TRUE
               /\ data'[k].zoho_expense_id = calls[s].zoho_id
               /\ posted[data'[k].zoho_expense_id].key = k
               /\ data'[k].zoho_response = calls[s].zoho_id
               /\ data'[k].zoho_error = ""
               /\ approve_link(data, calls[s]).resp.code = 200]_vars

\* An expense whose approval has completed.
C4_witness ==
  \E k \in Keys :
    /\ data[k].pending_kind = "expense"
    /\ data[k].status = "approved"
    /\ data[k].zoho_posted = TRUE
    /\ data[k].zoho_expense_id \in 1..Len(posted)
    /\ posted[data[k].zoho_expense_id].key = k
    /\ data[k].zoho_error = ""
    /\ \A s \in Slots : calls[s] = Idle

\* C5: approved is terminal: no step changes the status of an approved record.
C5_approved_terminal ==
  [][\A k \in Keys :
       (data[k].status = "approved" /\ k \in DOMAIN data')
         => data'[k].status = "approved"]_vars

\* C6: rejected is terminal: no step changes the status of a rejected record.
C6_rejected_terminal ==
  [][\A k \in Keys :
       (data[k].status = "rejected" /\ k \in DOMAIN data')
         => data'[k].status = "rejected"]_vars

\* C7: approving again a record that the workflow has just approved makes no
\* upstream call, leaves the record unchanged and returns the response that
\* the first, successful approval returned.
C7_reapprove_same_result ==
  \A s \in Slots :
    (calls[s].pc = "approved" /\ calls[s].kind = "expense"
       /\ calls[s].key \in Keys /\ data[calls[s].key].status = "approved")
      => LET first == approve_link(data, calls[s])
             again == approve(first.data, "admin", calls[s].key)
         IN  /\ again.call = Idle
             /\ again.resp = first.resp

\* C10: approving a clearing payment whose source is missing, not approved or
\* not accrued is refused with 400 before anything is posted or written: no
\* approval of a clearing payment starts unless its source is an approved
\* accrued record, and starting one changes no record.
C10_invalid_source_refused ==
  /\ [](\A k \in Keys :
          (/\ data[k].status = "pending"
           /\ data[k].pending_kind = "accrued_payment"
           /\ LET src == data[k].source_accrued_expense_id
              IN  \/ src \notin Keys
                  \/ data[src].status # "approved"
                  \/ ~IsAccrued(data[src]))
            => approve(data, "admin", k)
                 = [call |-> Idle, resp |-> HTTPException(400)])
  /\ [][\A s \in Slots :
          (calls[s] = Idle /\ calls'[s] # Idle
             /\ calls'[s].kind = "accrued_payment")
            => /\ calls'[s].source_id \in Keys
               /\ data[calls'[s].source_id].status = "approved"
               /\ IsAccrued(data[calls'[s].source_id])
               /\ data' = data /\ posted' = posted]_vars

\* A pending, unannotated clearing payment whose source has been rejected.
C10_witness ==
  \E k \in Keys :
    /\ data[k].status = "pending"
    /\ data[k].pending_kind = "accrued_payment"
    /\ data[k].zoho_posted = FALSE /\ data[k].zoho_error = "None"
    /\ data[k].source_accrued_expense_id \in Keys
    /\ data[data[k].source_accrued_expense_id].status = "rejected"
    /\ approve(data, "admin", k).resp = HTTPException(400)

\* The clearing entries of the source of payment k that were made for k.
EntriesFor(k) ==
  LET src == data[k].source_accrued_expense_id
  IN  IF src \notin Keys THEN {}
      ELSE {i \in 1..Len(ClearingOf(src)) :
              ClearingOf(src)[i].source_payment_id = k}

\* C11: an approved clearing payment carries the journal id returned upstream
\* and its source holds a clearing entry made for it, of the payment's amount,
\* with the source's balance recomputed from the clearing list.
C11_approved_payment_cleared ==
  \A k \in Keys :
    (data[k].pending_kind = "accrued_payment" /\ data[k].status = "approved")
      => /\ data[k].zoho_journal_id \in 1..Len(posted)
         /\ posted[data[k].zoho_journal_id].key = k
         /\ \E i \in EntriesFor(k) :
              ClearingOf(data[k].source_accrued_expense_id)[i].amount
                = data[k].amount
         /\ LET src == data[k].source_accrued_expense_id
            IN  data[src].balance
                  \in { Max(0, Round2(AmountOf(data[src])
                                      - SumAmounts(ClearingOf(src)), up)) :
                        up \in BOOLEAN }

\* The sum of the amounts the clear_accrued requests of the threads ts ask for.
RECURSIVE RequestedSum(_)
RequestedSum(ts) ==
  IF ts = {} THEN 0
  ELSE LET t == CHOOSE x \in ts : TRUE
       IN  threads[t].req.amount + RequestedSum(ts \ {t})

AllCleared ==
  \A t \in Threads :
    threads[t].pc = "done" /\ threads[t].req.name = "clear_accrued"

\* C12: when concurrent clear_accrued calls on the same approved accrued
\* record have all returned, the record holds one clearing entry per call and
\* its balance is max(0, amount - the sum of the cleared amounts).
C12_concurrent_clears ==
  (AllCleared /\ posted # <<>>)
    => /\ 1 \in Keys
       /\ Len(ClearingOf(1)) = MaxThreads
       /\ data[1].balance = Max(0, AmountOf(data[1]) - RequestedSum(Threads))

\* No request is in progress and some request has changed the ledger.
Quiescent ==
  /\ \A t \in Threads : threads[t].pc \in {"idle", "done"}
  /\ \E t \in Threads : threads[t].pc = "done" /\ threads[t].ok

\* C13: no update is lost: when the requests have returned, the file holds
\* the ledger in memory, and the record of every completed create is in it.
C13_no_lost_update ==
  Quiescent
    => /\ file = data
       /\ \A t \in Threads :
            (threads[t].pc = "done" /\ threads[t].req.name = "add_pending")
              => PendingStore_next_id(now) \in Keys

\* C14: an approve handler that waits for the upstream call does not hold the
\* ledger lock.
C14_no_lock_while_awaiting ==
  \A t \in Threads : threads[t].pc = "awaiting" => lock # t

\* An approve handler waits while another thread is inside a ledger method.
C14_witness ==
  \E t, u \in Threads :
    /\ threads[t].pc = "awaiting"
    /\ threads[u].pc = "locked"
    /\ lock = u

\* C15: an update or a delete by a non-privileged actor, on a record that the
\* actor did not create or that is not pending, is refused and leaves the
\* ledger, the record's payload included, as it was.
C15_forbidden_untouched ==
  \A k \in Keys, u \in Users :
    (~IsAdmin(u) /\ (data[k].created_by # u \/ data[k].status # "pending"))
      => /\ \A patch \in Patches, up \in BOOLEAN :
              /\ update_expense(data, u, k, patch, now, up).resp = HTTPException(403)
              /\ update_expense(data, u, k, patch, now, up).data = data
         /\ delete_expense(data, u, k).resp = HTTPException(403)
         /\ delete_expense(data, u, k).data = data

\* The owner of an approved record is refused, and so is another user on a
\* pending one.
C15_witness ==
  \E k \in Keys :
    /\ data[k].created_by = "user"
    /\ \/ /\ data[k].status = "approved"
          /\ delete_expense(data, "user", k).resp = HTTPException(403)
       \/ /\ data[k].status = "pending"
          /\ delete_expense(data, "other", k).resp = HTTPException(403)

C17_add_pending_normalizes ==
  \A record \in CreateRecords :
    LET r == PendingStore_add_pending(data, record, now)
        id == r.ret.expense_id
    IN  /\ id # EmptyId
        /\ id \in DOMAIN r.data
        /\ r.data[id] = r.ret
        /\ r.ret.status = "pending"
        /\ r.ret.receipts = <<>>
        /\ r.ret.clearing = <<>>
        /\ (r.ret.expense_type = "accrued" /\ "balance" \notin DOMAIN record)
             => r.ret.balance = r.ret.amount

\* C18: every record that a create path adds to the ledger has amount > 0.
C18_created_amount_positive ==
  [][\A k \in DOMAIN data' \ DOMAIN data : data'[k].amount > 0]_vars

\* C19: the id that a create without an explicit id receives is not the id of
\* a record already in the ledger.
C19_fresh_id ==
  \A record \in CreateRecords :
    PendingStore_add_pending(data, record, now).ret.expense_id \notin Keys

\* C20: list_accrued returns exactly the approved accrued expenses, without
\* those whose balance is zero or less unless include_cleared is set.
C20_list_accrued ==
  \A include_cleared \in BOOLEAN :
    PendingStore_list_accrued(data, include_cleared).ret
      = {k \in Keys :
           /\ data[k].status = "approved"
           /\ data[k].expense_type = "accrued"
           /\ data[k].pending_kind = "expense"
           /\ include_cleared \/ data[k].balance = None \/ data[k].balance > 0}

\* An approved accrued expense cleared down to zero by two payments: listed
\* only when the cleared ones are asked for.
C20_witness ==
  \E k \in Keys :
    /\ data[k].status = "approved"
    /\ Len(ClearingOf(k)) = 2
    /\ data[k].balance = 0
    /\ k \notin PendingStore_list_accrued(data, FALSE).ret
    /\ k \in PendingStore_list_accrued(data, TRUE).ret

\* The calendar's order on date strings, and the month after (y, m).
DateLE(a, b) ==
  \/ a[1] < b[1]
  \/ a[1] = b[1] /\ a[2] < b[2]
  \/ a[1] = b[1] /\ a[2] = b[2] /\ a[3] <= b[3]

FirstOfNext(today) ==
  IF today[2] = 12 THEN <<today[1] + 1, 1, 1>> ELSE <<today[1], today[2] + 1, 1>>

\* Whether a record dated date belongs to the range asked for.
InRange(date, start_date, end_date, default_current_month, today) ==
  IF start_date = NoDate /\ end_date = NoDate
  THEN default_current_month
         => /\ date # NoDate
            /\ DateLE(<<today[1], today[2], 1>>, date)
            /\ ~DateLE(FirstOfNext(today), date)
  ELSE /\ date # NoDate
       /\ start_date # NoDate => DateLE(start_date, date)
       /\ end_date # NoDate => ~DateLE(end_date, date)

\* C21: list_approved returns exactly the approved expenses dated in
\* [start, end); without a range that is the current month when
\* default_current_month is set, and every date when it is not.
C21_list_approved ==
  \A start_date, end_date \in DateStrings \cup {NoDate}, dcm \in BOOLEAN, today \in Todays :
    PendingStore_list_approved(data, start_date, end_date, dcm, today)
      = {k \in Keys : /\ data[k].status = "approved"
                      /\ data[k].pending_kind = "expense"
                      /\ InRange(data[k].date, start_date, end_date, dcm, today)}

\* An approved expense dated last December, in January: not in the default
\* listing, in the listing of a range that spans its date, and in the
\* listing without any restriction.
C21_witness ==
  \E k \in Keys :
    /\ data[k].status = "approved"
    /\ data[k].pending_kind = "expense"
    /\ data[k].date = <<1, 12, 31>>
    /\ k \notin PendingStore_list_approved(data, NoDate, NoDate, TRUE, <<2, 1, 5>>)
    /\ k \in PendingStore_list_approved(data, <<1, 12, 1>>, <<2, 1, 1>>, TRUE, <<2, 1, 5>>)
    /\ k \in PendingStore_list_approved(data, NoDate, NoDate, FALSE, <<2, 1, 5>>)
    /\ k \in PendingStore_list_approved(data, NoDate, NoDate, TRUE, <<1, 12, 5>>)

\* The sum of the amounts of the records ks.
RECURSIVE AmountSum(_)
AmountSum(ks) ==
  IF ks = {} THEN 0
  ELSE LET k == CHOOSE x \in ks : TRUE
       IN  data[k].amount + AmountSum(ks \ {k})

\* C22: the pending total of an account is the sum of the amounts of the
\* records that are pending and paid through that account.
C22_pending_total ==
  \A account_id \in {"cash", "bank"} :
    PendingStore_pending_total_for_account(data, account_id)
      = AmountSum({k \in Keys : /\ data[k].status = "pending"
                                /\ data[k].paid_through_account_id = account_id})

\* Two records of one account, one pending and one approved or rejected: only
\* the pending one counts.
C22_witness ==
  \E k, j \in Keys :
    /\ data[k].status = "pending"
    /\ data[j].status \in {"approved", "rejected"}
    /\ data[k].paid_through_account_id = "cash"
    /\ data[j].paid_through_account_id = "cash"
    /\ PendingStore_pending_total_for_account(data, "cash") = data[k].amount

\* C23: add_receipt on a stored record, whatever its status, returns the
\* record with one more receipt and every other field as it was, and leaves
\* the other records alone; on a missing id it returns None and changes
\* nothing.
C23_add_receipt_frame ==
  \A k \in AnyKey :
    LET r == PendingStore_add_receipt(data, k, now)
    IN  IF k \in Keys
        THEN /\ IsRec(r.ret)
             /\ r.data[k] = r.ret
             /\ r.ret.receipts = Append(data[k].receipts, [created_at |-> now])
             /\ DOMAIN r.ret = DOMAIN data[k]
             /\ \A f \in DOMAIN data[k] \ {"receipts"} : r.ret[f] = data[k][f]
             /\ DOMAIN r.data = Keys
             /\ \A j \in Keys \ {k} : r.data[j] = data[j]
        ELSE ~IsRec(r.ret) /\ r.data = data

\* A receipt added to a record after it was approved or rejected.
C23_witness ==
  \E k \in Keys :
    /\ Len(data[k].receipts) = 1
    /\ \/ /\ data[k].status = "approved"
          /\ data[k].receipts[1].created_at > Get(data[k], "approved_at", now)
       \/ /\ data[k].status = "rejected"
          /\ data[k].receipts[1].created_at > Get(data[k], "rejected_at", now)

\* The step in which the handler in slot s leaves the attachment stage.
AttachStep(s) == calls[s].pc = "attaching" /\ calls'[s] # calls[s]

\* C24: when the attachment stage of an approval ends, the approved and posted
\* record is still approved and posted, and it says either that the
\* attachments were posted or what went wrong.
C24_attachment_failure_kept ==
  [][\A s \in Slots :
       LET k == calls[s].key
       IN  (AttachStep(s) /\ k \in Keys /\ k \in DOMAIN data'
              /\ data[k].status = "approved" /\ data[k].zoho_posted)
             => /\ data'[k].status = "approved"
                /\ data'[k].zoho_posted
                /\ \/ Get(data'[k], "zoho_attachment_posted", FALSE)
                   \/ Get(data'[k], "zoho_attachment_error", "") # ""]_vars

\* C25: when the approve handler of a record that carries receipts from
\* before its approval returns after a successful approval, the upload of the receipts has been attempted:
\* the record says that the attachments were posted, or why not.
C25_receipts_pushed ==
  [][\A s \in Slots :
       LET k == calls[s].key
       IN  (/\ calls[s].pc \in {"approved", "clearing", "attaching"}
            /\ calls'[s] = Idle
            /\ k \in Keys /\ k \in DOMAIN data'
            /\ data[k].status = "approved"
            /\ data'[k].zoho_posted
            /\ \E i \in 1..Len(data'[k].receipts) :
                 data'[k].receipts[i].created_at < Get(data'[k], "approved_at", 0))
             => "zoho_attachment_posted" \in DOMAIN data'[k]]_vars

\* C26: no clearing entry of an accrued record names the accrued-liability
\* account as the account it was paid through.
C26_clearing_account ==
  \A k \in Keys :
    \A i \in 1..Len(ClearingOf(k)) :
      ClearingOf(k)[i].paid_through_account_id # AccruedAccount

\* What a caller who is not an admin may be shown.
MayList(d, u, k) ==
  \/ Get(d[k], "created_by", "None") = u
  \/ Get(d[k], "paid_through_account_id", "None") \in allowed_cash_accounts(u)

Restricted(d, u, ret, items) ==
  IF IsAdmin(u) THEN ret = items ELSE \A k \in ret : MayList(d, u, k)

\* C27: each listing endpoint (pending, approved, accrued, payments made)
\* returns to a caller who is not an admin only records the caller created or
\* whose paid-through account is in the caller's allow-list, and returns to
\* an admin every record the store's listing returns.
C27_listings_restricted ==
  \A u \in Users :
    /\ Restricted(data, u, list_pending(data, u).resp.body.pending,
                  PendingStore_list_pending(data))
    /\ \A today \in Todays :
         Restricted(data, u,
                    list_approved(data, u, NoDate, NoDate, today).resp.body.approved,
                    PendingStore_list_approved(data, NoDate, NoDate, TRUE, today))
    /\ \A include_cleared \in BOOLEAN :
         Restricted(list_accrued(data, u, include_cleared).data, u,
                    list_accrued(data, u, include_cleared).resp.body.accrued,
                    PendingStore_list_accrued(data, include_cleared).ret)
    /\ Restricted(data, u, list_payments_made(data, u).resp.body.payments,
                  PendingStore_list_payments_made(data, "approved"))

\* A listing that shows a caller a record of somebody else's, through the
\* allow-list, and hides another one.
C27_witness ==
  \E u \in Users \ {"admin"} :
    LET ret == list_payments_made(data, u).resp.body.payments
    IN  /\ \E k \in ret : data[k].created_by # u
        /\ ret # PendingStore_list_payments_made(data, "approved")

\* zoho_error says that an approval failed: neither None nor empty.
IsError(rec) == Get(rec, "zoho_error", "None") \notin {"", "None"}

\* A record whose last approval failed: still pending, the failure recorded.
FailedBefore(k) ==
  /\ k \in Keys
  /\ data[k].status = "pending"
  /\ IsError(data[k])

\* C28: a failed approval is not retried.  An upstream call starts only in
\* the step of an approve request and the upstream creates something only for
\* a call in flight; an approve request for a record whose approval failed is
\* accepted, and when its upstream call succeeds the record is approved with
\* the earlier error cleared, and the handler leaves it posted.
C28_no_retry ==
  [][/\ \A s \in Slots :
          (calls'[s] # calls[s] /\ calls'[s].pc = "posting")
            => /\ calls[s] = Idle
               /\ \E k \in Keys : calls'[s] = approve(data, "admin", k).call
     /\ posted' # posted => \E s \in Slots : calls[s].pc = "posting"
     /\ \A k \in Keys :
          (FailedBefore(k) /\ Get(data[k], "pending_kind", "expense") = "expense")
            => approve(data, "admin", k).call.pc = "posting"
     /\ \A s \in Slots :
          LET k == calls[s].key
          IN  /\ (/\ calls[s].pc = "posting"
                  /\ calls'[s].pc = "approved"
                  /\ FailedBefore(k))
                   => /\ data'[k].status = "approved"
                      /\ ~IsError(data'[k])
              /\ (/\ calls[s].pc = "approved"
                  /\ calls'[s] = Idle
                  /\ k \in Keys /\ k \in DOMAIN data'
                  /\ data[k].status = "approved")
                   => /\ data'[k].status = "approved"
                      /\ data'[k].zoho_posted
                      /\ data'[k].zoho_error = ""]_vars

\* The second approval of a record, its upstream call in flight: the record
\* still carries the error of the first.
C28_witness ==
  \E s \in Slots :
    /\ calls[s].pc = "posting"
    /\ FailedBefore(calls[s].key)

\* The field of the record that a key of the upstream payload is built from.
Canonical(key) == IF key = "account_id" THEN "expense_account_id" ELSE key

\* The value the upstream is sent for a field of the record, when the record
\* has one.
SendsField(payload, key, rec, field, none) ==
  (Get(rec, field, none) # none /\ Get(rec, field, none) # "")
    => (key \in DOMAIN payload /\ payload[key] = rec[field])

C30_overpayment_clamped ==
  \A k \in Keys, amount \in ClearAmounts, up \in BOOLEAN :
    LET rec == data[k]
        out == PendingStore_clear_accrued(data, k, amount, "cash", EmptyId,
                                          now, up).ret
    IN  (/\ rec.status = "approved"
         /\ Get(rec, "expense_type", "") = "accrued"
         /\ amount > rec.balance)
          => /\ IsRec(out)
             /\ Len(out.clearing) = Len(rec.clearing) + 1
             /\ out.clearing[Len(out.clearing)].amount = amount
             /\ out.balance = 0

\* A record cleared by more than its amount: its balance is 0.
C30_witness ==
  \E k \in Keys :
    /\ data[k].status = "approved"
    /\ SumAmounts(ClearingOf(k)) > data[k].amount
    /\ data[k].balance = 0

\* C31: the expense_id stored in a record is the key the ledger holds the
\* record under, whatever was patched.
C31_id_immutable ==
  \A k \in Keys : data[k].expense_id = k

\* C32: the upstream creates at most one object for a record, however the
\* approve requests for it interleave.
C32_one_upstream_create ==
  \A i, j \in 1..Len(posted) : posted[i].key = posted[j].key => i = j

\* The ledger d2 after a request holds no record that the request approved,
\* rejected or marked as posted.
NotSettledBy(d2) ==
  \A k \in DOMAIN d2 :
    IF k \in Keys
    THEN /\ d2[k].status \in {"approved", "rejected"}
            => d2[k].status = data[k].status
         /\ d2[k].zoho_posted => data[k].zoho_posted
    ELSE d2[k].status = "pending" /\ ~d2[k].zoho_posted

\* C33: no request of a caller who is not an admin (create, PATCH with any
\* patch, delete) sets a record's status to approved or rejected or sets its
\* zoho_posted flag.
C33_only_admin_settles ==
  \A u \in Users \ {"admin"} :
    /\ \A exp_type \in ExpenseTypes, amount \in Amounts :
         NotSettledBy(create_expense(data, u, exp_type, amount, "cash", now).data)
    /\ \A k \in Keys : NotSettledBy(delete_expense(data, u, k).data)
    /\ \A k \in Keys, patch \in AnyPatches, up \in BOOLEAN :
         NotSettledBy(update_expense(data, u, k, patch, now, up).data)

\* C34: the clearing list of a record never holds two entries with the same
\* non-empty source_payment_id: a clearing payment is entered at most once.
C34_one_entry_per_payment ==
  \A k \in Keys :
    \A i, j \in 1..Len(ClearingOf(k)) :
      (/\ ClearingOf(k)[i].source_payment_id # EmptyId
       /\ ClearingOf(k)[i].source_payment_id = ClearingOf(k)[j].source_payment_id)
        => i = j

\* C35: the ledger call of an owner's delete or edit leaves an approved
\* record as it is, also when the record was approved after the request's
\* permission check.
C35_approved_untouched ==
  [][\A t \in Threads :
       (/\ threads[t].pc \in {"delete", "update"}
        /\ threads'[t] = Idle
        /\ threads[t].key \in Keys
        /\ data[threads[t].key].status = "approved")
         => /\ threads[t].key \in DOMAIN data'
            /\ data'[threads[t].key] = data[threads[t].key]]_vars

\* C36: when the upstream has created the object and the record is marked
\* approved, the record's amount is the amount that was posted for it.
C36_posted_amount_stored ==
  [][\A s \in Slots :
       LET k == calls[s].key
       IN  (/\ calls[s].pc = "posting"
            /\ calls'[s].pc = "approved"
            /\ k \in DOMAIN data')
             => data'[k].amount = posted'[Len(posted')].amount]_vars

\* C37: a rejected record is not posted upstream.
C37_rejected_not_posted ==
  \A k \in Keys : data[k].status = "rejected" => ~data[k].zoho_posted

\* C38: an approved accrued record has cleared_at set exactly when its
\* balance is not above 0.
C38_cleared_at_iff_cleared ==
  \A k \in Keys :
    (data[k].status = "approved" /\ IsAccrued(data[k]) /\ data[k].balance # None)
      => (Get(data[k], "cleared_at", None) # None <=> data[k].balance <= 0)

\* C39: the clearing entries of a record have pairwise distinct clearing_id.
C39_clearing_ids_distinct ==
  \A k \in Keys :
    \A i, j \in 1..Len(ClearingOf(k)) :
      ClearingOf(k)[i].clearing_id = ClearingOf(k)[j].clearing_id => i = j

\* The fields of an accrued record that its clearing payments change.
ClearingState(rec) ==
  <<rec.balance, Get(rec, "clearing", <<>>), Get(rec, "cleared_at", None)>>

\* C40: an accepted request for a clearing payment adds one record to the
\* ledger, a pending accrued_payment linked to its source, and leaves every
\* record the ledger held as it was: the source keeps its balance, its
\* clearing list and its cleared_at.
C40_request_only_creates ==
  \A k \in Keys, amount \in ClearAmounts :
    LET r == clear_accrued(data, "admin", k, amount, "cash", now)
        new == DOMAIN r.data \ Keys
    IN  r.resp.code = 200
          => /\ \A x \in Keys : x \in DOMAIN r.data /\ r.data[x] = data[x]
             /\ ClearingState(r.data[k]) = ClearingState(data[k])
             /\ Cardinality(new) = 1
             /\ \A x \in new :
                  /\ r.data[x].status = "pending"
                  /\ r.data[x].pending_kind = "accrued_payment"
                  /\ r.data[x].source_accrued_expense_id = k
====
